---- MODULE Spec2Model ----
(***************************************************************************)
(* libmeminfo: the VMA stream parser (ForEachVmaFromFile), the ProcMemInfo *)
(* object (ReadMaps / GetUsageStats / ReadVmaStats / Smaps / Usage ...)    *)
(* and showmap's merge of same-named VMAs, as one state machine.           *)
(*                                                                         *)
(* Strings that the code inspects (VMA names) are sequences of one-        *)
(* character strings, so that comparisons and suffix tests are computed.   *)
(* Kernel files (/proc/<pid>/maps, smaps, pagemap, kpageflags, kpagecount) *)
(* are inputs: every getline / pread / lookup draws its outcome from a     *)
(* small set.                                                              *)
(***************************************************************************)
EXTENDS Integers, Sequences, FiniteSets, TLC

(***************************************************************************)
(* Bounds of the model                                                     *)
(***************************************************************************)
\* longest text stream handed to the parser, in lines
MaxLines == 3
\* number of API calls made on one ProcMemInfo object / parser
MaxCalls == 2
\* largest value written after a smaps key
MaxVal == 2
\* pagemap batch size of ReadVmaStats; 2048 in the source
\* (src/procmeminfo.cpp:486), scaled down so that a VMA of three pages
\* needs a second batch
kMaxPages == 2

(***************************************************************************)
(* Platform                                                                *)
(***************************************************************************)
getpagesize == 4096
conversion_factor == 1024

(***************************************************************************)
(* Strings                                                                  *)
(***************************************************************************)
EmptyName == << >>
VectorsName == <<"[","v","e","c","t","o","r","s","]">>
VsyscallName == <<"[","v","s","y","s","c","a","l","l","]">>
LibName == <<"/","a",".","s","o">>
AnonName == <<"[","a","n","o","n","]">>
SoSuffix == <<".","s","o">>

EndsWith(s, suffix) ==
    /\ Len(s) >= Len(suffix)
    /\ SubSeq(s, Len(s) - Len(suffix) + 1, Len(s)) = suffix

(***************************************************************************)
(* MemUsage                                                                *)
(***************************************************************************)
MemUsageFields ==
    {"vss", "rss", "pss", "uss", "swap", "swap_pss",
     "private_clean", "private_dirty", "shared_clean", "shared_dirty",
     "anon_huge_pages", "shmem_pmd_mapped", "file_pmd_mapped",
     "shared_hugetlb", "private_hugetlb", "thp", "locked"}

ZeroUsage == [f \in MemUsageFields |-> 0]

\* Vma::clear(): the usage of the scan loop's Vma starts again from zero
Vma_clear(vma) == [vma EXCEPT !.usage = ZeroUsage]

\* add_mem_usage, were the swap not summed
add_mem_usage_WithoutSwap(to, from) ==
    [to EXCEPT !.vss = @ + from.vss,
               !.rss = @ + from.rss,
               !.pss = @ + from.pss,
               !.uss = @ + from.uss,
               !.private_clean = @ + from.private_clean,
               !.private_dirty = @ + from.private_dirty,
               !.shared_clean = @ + from.shared_clean,
               !.shared_dirty = @ + from.shared_dirty]

add_mem_usage(to, from) ==
    [to EXCEPT !.vss = @ + from.vss,
               !.rss = @ + from.rss,
               !.pss = @ + from.pss,
               !.uss = @ + from.uss,
               !.swap = @ + from.swap,
               !.private_clean = @ + from.private_clean,
               !.private_dirty = @ + from.private_dirty,
               !.shared_clean = @ + from.shared_clean,
               !.shared_dirty = @ + from.shared_dirty]

convert_usage_kb_to_b(usage) ==
    [usage EXCEPT !.vss = @ * conversion_factor,
                  !.rss = @ * conversion_factor,
                  !.pss = @ * conversion_factor,
                  !.uss = @ * conversion_factor,
                  !.swap = @ * conversion_factor,
                  !.private_clean = @ * conversion_factor,
                  !.private_dirty = @ * conversion_factor,
                  !.shared_clean = @ * conversion_factor,
                  !.shared_dirty = @ * conversion_factor,
                  !.thp = @ * conversion_factor]

(***************************************************************************)
(* Text lines.  A line is a VMA header (kind "header", carrying what       *)
(* ReadMapFileContent reports), a "Key:   value" line (kind "stat"), or a  *)
(* line that is neither (kind "bad").                                      *)
(***************************************************************************)
NoInfo == [start |-> 0, end |-> 0, flags |-> 0, pgoff |-> 0, inode |-> 0,
           name |-> EmptyName, shared |-> FALSE]

MapInfo(startPage, endPage, name, flags, inode) ==
    [start |-> startPage * getpagesize, end |-> endPage * getpagesize,
     flags |-> flags, pgoff |-> 0, inode |-> inode, name |-> name,
     shared |-> FALSE]

HeaderLine(m) == [kind |-> "header", info |-> m, key |-> "", val |-> 0]
StatLine(k, v) == [kind |-> "stat", info |-> NoInfo, key |-> k, val |-> v]
BadLine == [kind |-> "bad", info |-> NoInfo, key |-> "", val |-> 0]

\* Returns TRUE (and the updated stats) when the line is a stats line.
parse_smaps_is_field(line) == line.kind = "stat"

parse_smaps_field(line, stats) ==
    IF ~parse_smaps_is_field(line) THEN stats
    ELSE CASE line.key = "Pss:" -> [stats EXCEPT !.pss = line.val]
           [] line.key = "Private_Clean:" ->
                  [stats EXCEPT !.private_clean = line.val,
                                !.uss = @ + line.val]
           [] line.key = "Private_Dirty:" ->
                  [stats EXCEPT !.private_dirty = line.val,
                                !.uss = @ + line.val]
           [] line.key = "Private_Hugetlb:" ->
                  [stats EXCEPT !.private_hugetlb = line.val]
           [] line.key = "Size:" -> [stats EXCEPT !.vss = line.val]
           [] line.key = "Shared_Clean:" ->
                  [stats EXCEPT !.shared_clean = line.val]
           [] line.key = "Shared_Dirty:" ->
                  [stats EXCEPT !.shared_dirty = line.val]
           [] line.key = "Swap:" -> [stats EXCEPT !.swap = line.val]
           [] line.key = "SwapPss:" -> [stats EXCEPT !.swap_pss = line.val]
           [] line.key = "ShmemPmdMapped:" ->
                  [stats EXCEPT !.shmem_pmd_mapped = line.val]
           [] line.key = "Shared_Hugetlb:" ->
                  [stats EXCEPT !.shared_hugetlb = line.val]
           [] line.key = "Rss:" -> [stats EXCEPT !.rss = line.val]
           [] line.key = "AnonHugePages:" ->
                  [stats EXCEPT !.anon_huge_pages = line.val]
           [] line.key = "FilePmdMapped:" ->
                  [stats EXCEPT !.file_pmd_mapped = line.val]
           [] line.key = "Locked:" -> [stats EXCEPT !.locked = line.val]
           [] OTHER -> stats

(***************************************************************************)
(* Vma                                                                     *)
(***************************************************************************)
\* showmap.cpp lines 73-81
VmaInfo(v, bss, n) == [vma |-> v, is_bss |-> bss, count |-> n]

EmptyVma == [start |-> 0, end |-> 0, flags |-> 0, offset |-> 0, inode |-> 0,
             name |-> EmptyName, is_shared |-> FALSE, usage |-> ZeroUsage]

\* the assignments of the MapInfo callbacks: every field but usage
VmaFromMapInfo(vma, m) ==
    [vma EXCEPT !.start = m.start, !.end = m.end, !.flags = m.flags,
                !.offset = m.pgoff, !.name = m.name, !.inode = m.inode,
                !.is_shared = m.shared]


(***************************************************************************)
(* ReadVmaStats: the page walk of one VMA.                                 *)
(*   loop locals  c.i (pages consumed), c.cache_idx, c.num_in_cache,       *)
(*                c.leftover; c.st is "run", "ok" (returned true) or       *)
(*                "fail" (returned false)                                   *)
(*   c.usage      the usage of the Vma walked (by reference)               *)
(*   c.swaps      swap_offsets_                                            *)
(*   p            num_pages and the arguments get_wss, use_pageidle,       *)
(*                update_mem_usage, update_swap_usage, with the object's   *)
(*                pgflags and pgflags_mask                                 *)
(*   o            what the kernel answers for this page: the pread of the  *)
(*                batch (o.read_ok), the pagemap entry (o.present,         *)
(*                o.swapped, o.swap_off), PageFlags (o.pf_ok, o.flags),    *)
(*                PageMapCount (o.pmc_ok, o.count), IsPageIdle (o.idle)    *)
(***************************************************************************)
pagesz_kb == getpagesize \div 1024

KPageFlags == {"DIRTY", "REFERENCED", "THP"}

NumPages(v) == (v.end - v.start) \div getpagesize

WalkParams(v, get_wss, use_pageidle, upd_mem, upd_swap, pgflags, pgflags_mask) ==
    [num_pages |-> NumPages(v), first_page |-> v.start \div getpagesize,
     get_wss |-> get_wss,
     use_pageidle |-> use_pageidle, update_mem_usage |-> upd_mem,
     update_swap_usage |-> upd_swap,
     pgflags |-> pgflags, pgflags_mask |-> pgflags_mask]

\* a counted page, were uss to grow with the shared pages too
CountPage_UssOfSharedToo(usage, is_private, is_dirty, cur_page_counts) ==
    [usage EXCEPT
       !.rss = @ + pagesz_kb,
       !.uss = @ + pagesz_kb,
       !.pss = @ + (pagesz_kb \div cur_page_counts),
       !.private_dirty = @ + (IF is_private /\ is_dirty THEN pagesz_kb ELSE 0),
       !.private_clean = @ + (IF is_private /\ ~is_dirty THEN pagesz_kb ELSE 0),
       !.shared_dirty = @ + (IF ~is_private /\ is_dirty THEN pagesz_kb ELSE 0),
       !.shared_clean = @ + (IF ~is_private /\ ~is_dirty THEN pagesz_kb ELSE 0)]

\* lines 566-575: a counted page
CountPage(usage, is_private, is_dirty, cur_page_counts) ==
    [usage EXCEPT
       !.rss = @ + pagesz_kb,
       !.uss = @ + (IF is_private THEN pagesz_kb ELSE 0),
       !.pss = @ + (pagesz_kb \div cur_page_counts),
       !.private_dirty = @ + (IF is_private /\ is_dirty THEN pagesz_kb ELSE 0),
       !.private_clean = @ + (IF is_private /\ ~is_dirty THEN pagesz_kb ELSE 0),
       !.shared_dirty = @ + (IF ~is_private /\ is_dirty THEN pagesz_kb ELSE 0),
       !.shared_clean = @ + (IF ~is_private /\ ~is_dirty THEN pagesz_kb ELSE 0)]

\* lines 554-556: in working-set mode, is the page counted
IsReferenced(use_pageidle, idle, cur_page_flags) ==
    IF use_pageidle THEN idle = 1 ELSE "REFERENCED" \in cur_page_flags

\* line 537, were no page ever filtered out
MatchesFilter_Always(cur_page_flags, pgflags, pgflags_mask) == TRUE

\* line 537: the page passes the page-flag filter
MatchesFilter(cur_page_flags, pgflags, pgflags_mask) ==
    (cur_page_flags \cap pgflags_mask) = pgflags

\* lines 577-580: the loop is over
WalkFinish(c, p) ==
    IF c.st = "run" /\ c.i = p.num_pages
    THEN [c EXCEPT !.st = "ok",
                   !.usage.vss = @ + (IF p.get_wss THEN 0
                                      ELSE pagesz_kb * p.num_pages)]
    ELSE c

\* lines 469-482: entry of ReadVmaStats
WalkBegin(usage, swaps, p, init_ok) ==
    LET c0 == [i |-> 0, cache_idx |-> 0, num_in_cache |-> 0,
               leftover |-> p.num_pages, st |-> "run", err |-> "none",
               usage |-> usage, swaps |-> swaps]
    IN  IF p.get_wss /\ p.use_pageidle /\ ~init_ok
        THEN [c0 EXCEPT !.st = "fail", !.err = "InitPageAcct"]
        ELSE WalkFinish(c0, p)

\* lines 485-509: refill the page cache when it is used up
ReadBatch(c, o) ==
    IF c.cache_idx = c.num_in_cache
    THEN LET left == c.leftover - c.num_in_cache
             n == IF left > kMaxPages THEN kMaxPages ELSE left
         IN  [c EXCEPT !.leftover = left,
                       !.num_in_cache = n,
                       !.cache_idx = IF o.read_ok THEN 0 ELSE @,
                       !.st = IF o.read_ok THEN "run" ELSE "fail",
                       !.err = IF o.read_ok THEN "none" ELSE "pread"]
    ELSE c

\* lines 485-496, were every batch read at the offset of the VMA's first page
Pread_AtFirstPage(c, p) ==
    IF c.cache_idx = c.num_in_cache
    THEN LET left == c.leftover - c.num_in_cache
             n == IF left > kMaxPages THEN kMaxPages ELSE left
         IN  << [offset |-> p.first_page * 8, bytes |-> n * 8] >>
    ELSE << >>

\* lines 485-496: the pread64 made by the iteration that begins with the
\* locals c, if it makes one: its offset in the pagemap and its length,
\* sizeof(uint64_t) being 8
Pread(c, p) ==
    IF c.cache_idx = c.num_in_cache
    THEN LET left == c.leftover - c.num_in_cache
             n == IF left > kMaxPages THEN kMaxPages ELSE left
         IN  << [offset |-> (p.first_page + c.i) * 8, bytes |-> n * 8] >>
    ELSE << >>

\* lines 511-576: one entry of the page cache
AccountEntry(c, p, o) ==
    LET c1 == [c EXCEPT !.cache_idx = @ + 1, !.i = @ + 1]
        thp == [c1 EXCEPT !.usage.thp =
                   @ + (IF "THP" \in o.flags THEN pagesz_kb ELSE 0)]
    IN  IF ~o.present /\ ~o.swapped THEN c1
        ELSE IF o.swapped
        THEN [c1 EXCEPT !.usage.swap =
                          @ + (IF p.update_swap_usage THEN pagesz_kb ELSE 0),
                        !.swaps = Append(@, o.swap_off)]
        ELSE IF ~p.update_mem_usage THEN c1
        ELSE IF ~o.pf_ok
        THEN [c1 EXCEPT !.swaps = << >>, !.st = "fail", !.err = "PageFlags"]
        ELSE IF ~MatchesFilter(o.flags, p.pgflags, p.pgflags_mask) THEN thp
        ELSE IF ~o.pmc_ok
        THEN [thp EXCEPT !.swaps = << >>, !.st = "fail", !.err = "PageMapCount"]
        ELSE IF o.count = 0 THEN thp
        ELSE IF p.get_wss /\ ~IsReferenced(p.use_pageidle, o.idle, o.flags)
        THEN thp
        ELSE LET wss == [thp EXCEPT !.usage.vss =
                            @ + (IF p.get_wss THEN pagesz_kb ELSE 0)]
             IN  [wss EXCEPT !.usage = CountPage(@, o.count = 1,
                                                 "DIRTY" \in o.flags, o.count)]

\* one iteration of the loop over the pages, and the loop's exit after it
ReadVmaStatsPage(c, p, o) ==
    LET b == ReadBatch(c, o)
    IN  IF b.st = "fail" THEN b ELSE WalkFinish(AccountEntry(b, p, o), p)

\* lines 511-514: the entry read in the iteration that begins with the
\* locals c is of a swapped page
IsSwappedEntry(c, o) ==
    ReadBatch(c, o).st = "run" /\ ~o.present /\ o.swapped

\* lines 511-552: the entry is of a present page that passes every test
\* made before the working-set test
ReachesWssTest(c, p, o) ==
    /\ ReadBatch(c, o).st = "run"
    /\ o.present /\ ~o.swapped
    /\ p.update_mem_usage
    /\ o.pf_ok
    /\ MatchesFilter(o.flags, p.pgflags, p.pgflags_mask)
    /\ o.pmc_ok
    /\ o.count # 0

\* no page was put to the working-set test
NoPage ==
    [tested |-> FALSE, use_pageidle |-> FALSE, idle |-> 0,
     referenced |-> FALSE, counted |-> FALSE]

\* what the iteration from c to d did with a page in working-set mode:
\* the mode, IsPageIdle's answer, the KPF_REFERENCED flag, and whether
\* lines 564-575 added the page to the usage
PageTested(c, p, o, d) ==
    IF p.get_wss /\ ReachesWssTest(c, p, o)
    THEN [tested |-> TRUE, use_pageidle |-> p.use_pageidle, idle |-> o.idle,
          referenced |-> "REFERENCED" \in o.flags,
          counted |-> d.usage.rss = c.usage.rss + pagesz_kb]
    ELSE NoPage

\* the whole walk, the kernel's answers for page k being obs[k]
RECURSIVE WalkFrom(_, _, _, _)
WalkFrom(c, p, obs, k) ==
    IF c.st # "run" THEN c
    ELSE WalkFrom(ReadVmaStatsPage(c, p, obs[k]), p, obs, k + 1)

ReadVmaStats(usage, swaps, p, init_ok, obs) ==
    WalkFrom(WalkBegin(usage, swaps, p, init_ok), p, obs, 1)

(***************************************************************************)
(* g_excluded_vmas: "[vectors]", and "[vsyscall]" when built for x86_64    *)
(***************************************************************************)
g_excluded_vmas(x86_64) ==
    IF x86_64 THEN {VectorsName, VsyscallName} ELSE {VectorsName}

(***************************************************************************)
(* Inputs                                                                  *)
(***************************************************************************)

\* largest map count PageMapCount reports
MaxMapCount == 3
\* largest swap offset found in a pagemap entry
MaxSwapOff == 1
\* most VMAs in the /proc/<pid>/maps read by ReadMaps
MaxVmas == 2
\* most calls of FillInVmaStats on an object
MaxFills == 1
\* most calls of Smaps on an object
MaxSmaps == 1

\* what the maps lines of the inspected process can say
MapInfos ==
    { MapInfo(1, 2, LibName, 5, 11),
      MapInfo(2, 5, EmptyName, 1, 0),
      MapInfo(8, 9, VectorsName, 1, 0),
      MapInfo(9, 10, VsyscallName, 1, 0) }

DeletedLibName == <<"/","a",".","s","o"," ","(","d","e","l","e","t","e","d",")">>
JarName == <<"/","a",".","j","a","r">>

\* the smaps of a process given to showmap: a library, a library whose file
\* was deleted, another file, and VMAs without a name next to them, next to
\* those, and apart
ShowmapInfos ==
    { MapInfo(1, 2, LibName, 5, 11),
      MapInfo(1, 2, DeletedLibName, 5, 11),
      MapInfo(1, 2, JarName, 1, 12),
      MapInfo(2, 5, EmptyName, 3, 0),
      MapInfo(5, 6, EmptyName, 3, 0),
      MapInfo(7, 8, EmptyName, 3, 0) }

MapInfosOf(cb) == IF cb = "collect_vma" THEN ShowmapInfos ELSE MapInfos

\* smaps keys written in the streams handed to each kind of callback:
\* recognised ones and one unknown ("VmFlags:")
InputKeys(cb) ==
    CASE cb = "collect_vmas" -> {"Pss:", "SwapPss:"}
      [] cb = "collect_vma_merge_by_names" ->
             {"Rss:", "Shared_Hugetlb:", "Private_Hugetlb:"}
      [] cb = "collect_vma" -> {"Rss:"}
      [] OTHER -> {"Pss:", "Private_Clean:", "Private_Dirty:", "Rss:",
                   "VmFlags:"}

InputVals == 1..MaxVal

InputLines(cb) ==
    {HeaderLine(m) : m \in MapInfosOf(cb)}
    \cup {StatLine(k, v) : k \in InputKeys(cb), v \in InputVals}
    \cup {BadLine}

\* the answers of the kernel for one page
Obs(read_ok, present, swapped, swap_off, pf_ok, flags, pmc_ok, count, idle) ==
    [read_ok |-> read_ok, present |-> present, swapped |-> swapped,
     swap_off |-> swap_off, pf_ok |-> pf_ok, flags |-> flags,
     pmc_ok |-> pmc_ok, count |-> count, idle |-> idle]

ObsReadFail == Obs(FALSE, FALSE, FALSE, 0, TRUE, {}, TRUE, 0, 0)
ObsUnmapped == Obs(TRUE, FALSE, FALSE, 0, TRUE, {}, TRUE, 0, 0)
ObsSwapped(off) == Obs(TRUE, FALSE, TRUE, off, TRUE, {}, TRUE, 0, 0)
ObsPresent(flags, count, idle) ==
    Obs(TRUE, TRUE, FALSE, 0, TRUE, flags, TRUE, count, idle)
ObsPageFlagsFail == Obs(TRUE, TRUE, FALSE, 0, FALSE, {}, TRUE, 0, 0)
ObsPageMapCountFail(flags) == Obs(TRUE, TRUE, FALSE, 0, TRUE, flags, FALSE, 0, 0)

\* the answers that matter when neither flags nor counts are looked up
PagemapObs ==
    {ObsReadFail, ObsUnmapped, ObsPresent({}, 1, 0)}
    \cup {ObsSwapped(off) : off \in 1..MaxSwapOff}

\* IsPageIdle is asked only when use_pageidle is set
PageObs(use_pageidle) ==
    PagemapObs
    \cup {ObsPageFlagsFail}
    \cup {ObsPageMapCountFail(f) : f \in SUBSET KPageFlags}
    \cup {ObsPresent(f, n, idle) :
              f \in SUBSET KPageFlags, n \in 0..MaxMapCount,
              idle \in IF use_pageidle THEN {0, 1} ELSE {0}}

(***************************************************************************)
(* ExtractAndroidHeapStatsFromFile: the strings that vma_scan looks for    *)
(***************************************************************************)
\* " (deleted)"
kDeleted == <<" ","(","d","e","l","e","t","e","d",")">>
\* "[heap]"
kHeap == <<"[","h","e","a","p","]">>
\* "[anon:libc_malloc]"
kLibcMalloc == <<"[","a","n","o","n",":","l","i","b","c","_","m","a","l","l","o","c","]">>
\* "[anon:scudo:"
kScudo == <<"[","a","n","o","n",":","s","c","u","d","o",":">>
\* "[anon:GWP-ASan"
kGwpAsan == <<"[","a","n","o","n",":","G","W","P","-","A","S","a","n">>
\* "[stack"
kStack == <<"[","s","t","a","c","k">>
\* "[anon:stack_and_tls:"
kStackAndTls == <<"[","a","n","o","n",":","s","t","a","c","k","_","a","n","d","_","t","l","s",":">>
\* ".so", ".jar", ".apk", ".ttf", ".odex", ".dex", ".vdex", ".oat", ".art", ".art]"
kSo == <<".","s","o">>
kJar == <<".","j","a","r">>
kApk == <<".","a","p","k">>
kTtf == <<".","t","t","f">>
kOdex == <<".","o","d","e","x">>
kDex == <<".","d","e","x">>
kVdex == <<".","v","d","e","x">>
kOat == <<".","o","a","t">>
kArt == <<".","a","r","t">>
kArtBracket == <<".","a","r","t","]">>
\* "@boot", "/boot", "/apex"
kAtBoot == <<"@","b","o","o","t">>
kSlashBoot == <<"/","b","o","o","t">>
kSlashApex == <<"/","a","p","e","x">>
\* "/dev/", "/dev/kgsl-3d0", "/dev/ashmem/CursorWindow",
\* "/dev/ashmem/jit-zygote-cache", "/dev/ashmem"
kDev == <<"/","d","e","v","/">>
kKgsl == <<"/","d","e","v","/","k","g","s","l","-","3","d","0">>
kCursorWindow == <<"/","d","e","v","/","a","s","h","m","e","m","/","C","u","r","s","o","r","W","i","n","d","o","w">>
kAshmemJitZygoteCache == <<"/","d","e","v","/","a","s","h","m","e","m","/","j","i","t","-","z","y","g","o","t","e","-","c","a","c","h","e">>
kAshmem == <<"/","d","e","v","/","a","s","h","m","e","m">>
\* "/memfd:jit-cache", "/memfd:jit-zygote-cache"
kMemfdJitCache == <<"/","m","e","m","f","d",":","j","i","t","-","c","a","c","h","e">>
kMemfdJitZygoteCache == <<"/","m","e","m","f","d",":","j","i","t","-","z","y","g","o","t","e","-","c","a","c","h","e">>
\* "[anon:", "[anon:dalvik-" and the names of the ART spaces
kAnon == <<"[","a","n","o","n",":">>
kAnonDalvik == <<"[","a","n","o","n",":","d","a","l","v","i","k","-">>
kLinearAlloc == <<"[","a","n","o","n",":","d","a","l","v","i","k","-","L","i","n","e","a","r","A","l","l","o","c">>
kAllocSpace == <<"[","a","n","o","n",":","d","a","l","v","i","k","-","a","l","l","o","c"," ","s","p","a","c","e">>
kMainSpace == <<"[","a","n","o","n",":","d","a","l","v","i","k","-","m","a","i","n"," ","s","p","a","c","e">>
kLargeObjectSpace == <<"[","a","n","o","n",":","d","a","l","v","i","k","-","l","a","r","g","e"," ","o","b","j","e","c","t"," ","s","p","a","c","e">>
kFreeListLargeObjectSpace == <<"[","a","n","o","n",":","d","a","l","v","i","k","-","f","r","e","e"," ","l","i","s","t"," ","l","a","r","g","e"," ","o","b","j","e","c","t"," ","s","p","a","c","e">>
kNonMovingSpace == <<"[","a","n","o","n",":","d","a","l","v","i","k","-","n","o","n"," ","m","o","v","i","n","g"," ","s","p","a","c","e">>
kZygoteSpace == <<"[","a","n","o","n",":","d","a","l","v","i","k","-","z","y","g","o","t","e"," ","s","p","a","c","e">>
kIndirectRef == <<"[","a","n","o","n",":","d","a","l","v","i","k","-","i","n","d","i","r","e","c","t"," ","r","e","f">>
kJitCodeCache == <<"[","a","n","o","n",":","d","a","l","v","i","k","-","j","i","t","-","c","o","d","e","-","c","a","c","h","e">>
kDataCodeCache == <<"[","a","n","o","n",":","d","a","l","v","i","k","-","d","a","t","a","-","c","o","d","e","-","c","a","c","h","e">>
kCompilerMetadata == <<"[","a","n","o","n",":","d","a","l","v","i","k","-","C","o","m","p","i","l","e","r","M","e","t","a","d","a","t","a">>

\* android::base::StartsWith
StartsWith(s, prefix) ==
    /\ Len(s) >= Len(prefix)
    /\ SubSeq(s, 1, Len(prefix)) = prefix

\* strstr(s, sub) != nullptr
Contains(s, sub) ==
    \E i \in 1..(Len(s) - Len(sub) + 1) : SubSeq(s, i, i + Len(sub) - 1) = sub

\* vma_scan, the head of the lambda: a trailing " (deleted)" is cut off
StripDeleted(name) ==
    IF EndsWith(name, kDeleted)
    THEN SubSeq(name, 1, Len(name) - Len(kDeleted))
    ELSE name

Heap(which, sub, swappable) == [which_heap |-> which, sub_heap |-> sub, is_swappable |-> swappable]

\* the sub-heap of a .vdex or .art file: of the boot image or of an app
IsBootFile(name) ==
    \/ Contains(name, kAtBoot)
    \/ Contains(name, kSlashBoot)
    \/ Contains(name, kSlashApex)

\* "/dev/..." names
DevHeap(name) ==
    IF StartsWith(name, kKgsl) THEN Heap("HEAP_GL_DEV", "HEAP_UNKNOWN", FALSE)
    ELSE IF StartsWith(name, kCursorWindow) THEN Heap("HEAP_CURSOR", "HEAP_UNKNOWN", FALSE)
    ELSE IF StartsWith(name, kAshmemJitZygoteCache)
         THEN Heap("HEAP_DALVIK_OTHER", "HEAP_DALVIK_OTHER_ZYGOTE_CODE_CACHE", FALSE)
    ELSE IF StartsWith(name, kAshmem) THEN Heap("HEAP_ASHMEM", "HEAP_UNKNOWN", FALSE)
    ELSE Heap("HEAP_UNKNOWN_DEV", "HEAP_UNKNOWN", FALSE)

\* "[anon:dalvik-..." names, with the most general answer last
DalvikHeap_GeneralFirst(name) == Heap("HEAP_DALVIK_OTHER", "HEAP_DALVIK_OTHER_ACCOUNTING", FALSE)

DalvikHeap(name) ==
    IF StartsWith(name, kLinearAlloc)
    THEN Heap("HEAP_DALVIK_OTHER", "HEAP_DALVIK_OTHER_LINEARALLOC", FALSE)
    ELSE IF StartsWith(name, kAllocSpace) \/ StartsWith(name, kMainSpace)
         THEN Heap("HEAP_DALVIK", "HEAP_DALVIK_NORMAL", FALSE)
    ELSE IF StartsWith(name, kLargeObjectSpace) \/ StartsWith(name, kFreeListLargeObjectSpace)
         THEN Heap("HEAP_DALVIK", "HEAP_DALVIK_LARGE", FALSE)
    ELSE IF StartsWith(name, kNonMovingSpace)
         THEN Heap("HEAP_DALVIK", "HEAP_DALVIK_NON_MOVING", FALSE)
    ELSE IF StartsWith(name, kZygoteSpace)
         THEN Heap("HEAP_DALVIK", "HEAP_DALVIK_ZYGOTE", FALSE)
    ELSE IF StartsWith(name, kIndirectRef)
         THEN Heap("HEAP_DALVIK_OTHER", "HEAP_DALVIK_OTHER_INDIRECT_REFERENCE_TABLE", FALSE)
    ELSE IF StartsWith(name, kJitCodeCache) \/ StartsWith(name, kDataCodeCache)
         THEN Heap("HEAP_DALVIK_OTHER", "HEAP_DALVIK_OTHER_APP_CODE_CACHE", FALSE)
    ELSE IF StartsWith(name, kCompilerMetadata)
         THEN Heap("HEAP_DALVIK_OTHER", "HEAP_DALVIK_OTHER_COMPILER_METADATA", FALSE)
    ELSE Heap("HEAP_DALVIK_OTHER", "HEAP_DALVIK_OTHER_ACCOUNTING", FALSE)

\* vma_scan, the chain of tests on the name: name is the name without
\* " (deleted)", start the VMA's first address, prev_end_ and prev_heap_
\* what the VMA before it left
which_heap_of(name, start, prev_end_, prev_heap_) ==
    IF StartsWith(name, kHeap) THEN Heap("HEAP_NATIVE", "HEAP_UNKNOWN", FALSE)
    ELSE IF StartsWith(name, kLibcMalloc) THEN Heap("HEAP_NATIVE", "HEAP_UNKNOWN", FALSE)
    ELSE IF StartsWith(name, kScudo) THEN Heap("HEAP_NATIVE", "HEAP_UNKNOWN", FALSE)
    ELSE IF StartsWith(name, kGwpAsan) THEN Heap("HEAP_NATIVE", "HEAP_UNKNOWN", FALSE)
    ELSE IF StartsWith(name, kStack) THEN Heap("HEAP_STACK", "HEAP_UNKNOWN", FALSE)
    ELSE IF StartsWith(name, kStackAndTls) THEN Heap("HEAP_STACK", "HEAP_UNKNOWN", FALSE)
    ELSE IF EndsWith(name, kSo) THEN Heap("HEAP_SO", "HEAP_UNKNOWN", TRUE)
    ELSE IF EndsWith(name, kJar) THEN Heap("HEAP_JAR", "HEAP_UNKNOWN", TRUE)
    ELSE IF EndsWith(name, kApk) THEN Heap("HEAP_APK", "HEAP_UNKNOWN", TRUE)
    ELSE IF EndsWith(name, kTtf) THEN Heap("HEAP_TTF", "HEAP_UNKNOWN", TRUE)
    ELSE IF EndsWith(name, kOdex) \/ (Len(name) > 4 /\ Contains(name, kDex))
         THEN Heap("HEAP_DEX", "HEAP_DEX_APP_DEX", TRUE)
    ELSE IF EndsWith(name, kVdex)
         THEN Heap("HEAP_DEX", IF IsBootFile(name) THEN "HEAP_DEX_BOOT_VDEX" ELSE "HEAP_DEX_APP_VDEX", TRUE)
    ELSE IF EndsWith(name, kOat) THEN Heap("HEAP_OAT", "HEAP_UNKNOWN", TRUE)
    ELSE IF EndsWith(name, kArt) \/ EndsWith(name, kArtBracket)
         THEN Heap("HEAP_ART", IF IsBootFile(name) THEN "HEAP_ART_BOOT" ELSE "HEAP_ART_APP", TRUE)
    ELSE IF StartsWith(name, kDev) THEN DevHeap(name)
    ELSE IF StartsWith(name, kMemfdJitCache)
         THEN Heap("HEAP_DALVIK_OTHER", "HEAP_DALVIK_OTHER_APP_CODE_CACHE", FALSE)
    ELSE IF StartsWith(name, kMemfdJitZygoteCache)
         THEN Heap("HEAP_DALVIK_OTHER", "HEAP_DALVIK_OTHER_ZYGOTE_CODE_CACHE", FALSE)
    ELSE IF StartsWith(name, kAnon)
         THEN IF StartsWith(name, kAnonDalvik) THEN DalvikHeap(name)
              ELSE Heap("HEAP_UNKNOWN", "HEAP_UNKNOWN", FALSE)
    ELSE IF Len(name) > 0 THEN Heap("HEAP_UNKNOWN_MAP", "HEAP_UNKNOWN", FALSE)
    ELSE IF start = prev_end_ /\ prev_heap_ = "HEAP_SO" THEN Heap("HEAP_SO", "HEAP_UNKNOWN", FALSE)
    ELSE Heap("HEAP_UNKNOWN", "HEAP_UNKNOWN", FALSE)

(***************************************************************************)
(* AndroidHeapStats: the table that ExtractAndroidHeapStatsFromFile fills  *)
(***************************************************************************)
\* the top-level heaps that have sub-heaps, and their sub-heaps
SubHeaps ==
    [h \in {"HEAP_DALVIK", "HEAP_DALVIK_OTHER", "HEAP_DEX", "HEAP_ART"} |->
        CASE h = "HEAP_DALVIK" ->
                 {"HEAP_DALVIK_NORMAL", "HEAP_DALVIK_LARGE",
                  "HEAP_DALVIK_ZYGOTE", "HEAP_DALVIK_NON_MOVING"}
          [] h = "HEAP_DALVIK_OTHER" ->
                 {"HEAP_DALVIK_OTHER_LINEARALLOC", "HEAP_DALVIK_OTHER_ACCOUNTING",
                  "HEAP_DALVIK_OTHER_ZYGOTE_CODE_CACHE",
                  "HEAP_DALVIK_OTHER_APP_CODE_CACHE",
                  "HEAP_DALVIK_OTHER_COMPILER_METADATA",
                  "HEAP_DALVIK_OTHER_INDIRECT_REFERENCE_TABLE"}
          [] h = "HEAP_DEX" ->
                 {"HEAP_DEX_BOOT_VDEX", "HEAP_DEX_APP_DEX", "HEAP_DEX_APP_VDEX"}
          [] h = "HEAP_ART" -> {"HEAP_ART_APP", "HEAP_ART_BOOT"} ]

TopHeaps ==
    {"HEAP_UNKNOWN", "HEAP_DALVIK", "HEAP_NATIVE", "HEAP_DALVIK_OTHER",
     "HEAP_STACK", "HEAP_CURSOR", "HEAP_ASHMEM", "HEAP_GL_DEV",
     "HEAP_UNKNOWN_DEV", "HEAP_SO", "HEAP_JAR", "HEAP_APK", "HEAP_TTF",
     "HEAP_DEX", "HEAP_OAT", "HEAP_ART", "HEAP_UNKNOWN_MAP"}

Heaps == TopHeaps \cup UNION {SubHeaps[h] : h \in DOMAIN SubHeaps}

ZeroHeapStats ==
    [pss |-> 0, swappablePss |-> 0, rss |-> 0, privateDirty |-> 0,
     sharedDirty |-> 0, privateClean |-> 0, sharedClean |-> 0,
     swappedOut |-> 0, swappedOutPss |-> 0]

ZeroStats == [h \in Heaps |-> ZeroHeapStats]

\* vma_scan: the share of the VMA's pss that can be paged out.  The operands
\* of the division are uint64_t: the quotient is the integer quotient, and
\* only then a float.  (pss >= uss in every usage drawn here, so that the
\* unsigned difference does not wrap.)
swapable_pss_of(is_swappable, usage) ==
    IF is_swappable /\ usage.pss > 0
    THEN LET sharing_proportion ==
                 IF usage.shared_clean > 0 \/ usage.shared_dirty > 0
                 THEN (usage.pss - usage.uss) \div (usage.shared_clean + usage.shared_dirty)
                 ELSE 0
         IN  sharing_proportion * usage.shared_clean + usage.private_clean
    ELSE 0

\* stats[heap].x += ...
AddToSlot(slot, usage, swapable_pss) ==
    [pss |-> slot.pss + usage.pss,
     swappablePss |-> slot.swappablePss + swapable_pss,
     rss |-> slot.rss + usage.rss,
     privateDirty |-> slot.privateDirty + usage.private_dirty,
     sharedDirty |-> slot.sharedDirty + usage.shared_dirty,
     privateClean |-> slot.privateClean + usage.private_clean,
     sharedClean |-> slot.sharedClean + usage.shared_clean,
     swappedOut |-> slot.swappedOut + usage.swap,
     swappedOutPss |-> slot.swappedOutPss + usage.swap_pss]

\* the accumulation into stats[which_heap] alone
AddToStats_TopOnly(table, h, usage, swapable_pss) == [table EXCEPT ![h.which_heap] = AddToSlot(@, usage, swapable_pss)]

\* the two accumulations at the end of vma_scan
AddToStats(table, h, usage, swapable_pss) ==
    LET top == [table EXCEPT ![h.which_heap] = AddToSlot(@, usage, swapable_pss)]
    IN  IF h.which_heap \in {"HEAP_DALVIK", "HEAP_DALVIK_OTHER", "HEAP_DEX", "HEAP_ART"}
        THEN [top EXCEPT ![h.sub_heap] = AddToSlot(@, usage, swapable_pss)]
        ELSE top

(***************************************************************************)
(* The smaps files given to ExtractAndroidHeapStatsFromFile                *)
(***************************************************************************)
\* most VMAs in a smaps file given to ExtractAndroidHeapStatsFromFile
MaxScan == 2
\* most calls of ExtractAndroidHeapStatsFromFile
MaxExtracts == 1

\* names that the kernel writes: paths, paths of deleted files, and the
\* names in brackets
HeapNames ==
    { <<"[","h","e","a","p","]">>, <<"[","a","n","o","n",":","l","i","b","c","_","m","a","l","l","o","c","]">>, <<"[","a","n","o","n",":","s","c","u","d","o",":","p","r","i","m","a","r","y","]">>,
      <<"[","a","n","o","n",":","G","W","P","-","A","S","a","n"," ","G","u","a","r","d"," ","P","a","g","e","]">>, <<"[","s","t","a","c","k","]">>, <<"[","a","n","o","n",":","s","t","a","c","k","_","a","n","d","_","t","l","s",":","1","]">>,
      <<"/","a",".","s","o">>, <<"/","a",".","s","o"," ","(","d","e","l","e","t","e","d",")">>, <<"/","a",".","j","a","r">>, <<"/","a",".","a","p","k">>, <<"/","a",".","t","t","f">>,
      <<"/","a",".","o","d","e","x">>, <<"/","a",".","d","e","x">>, <<"/","a",".","v","d","e","x">>, <<"/","b","o","o","t",".","v","d","e","x">>, <<"/","x","@","b","o","o","t",".","v","d","e","x">>,
      <<"/","a","p","e","x","/","a",".","v","d","e","x">>, <<"/","a",".","o","a","t">>, <<"/","a",".","a","r","t">>, <<"/","b","o","o","t",".","a","r","t">>,
      <<"[","a","n","o","n",":","d","a","l","v","i","k","-","/","b","o","o","t",".","a","r","t","]">>, <<"[","a","n","o","n",":","d","a","l","v","i","k","-","/","a",".","a","r","t","]">>,
      <<"/","d","e","v","/","a","s","h","m","e","m","/","a",".","j","a","r">>, <<"/","d","e","v","/","x">>, <<"/","d","e","v","/","k","g","s","l","-","3","d","0">>,
      <<"/","d","e","v","/","a","s","h","m","e","m","/","C","u","r","s","o","r","W","i","n","d","o","w">>, <<"/","d","e","v","/","a","s","h","m","e","m","/","j","i","t","-","z","y","g","o","t","e","-","c","a","c","h","e">>,
      <<"/","d","e","v","/","a","s","h","m","e","m","/","x">>, <<"/","m","e","m","f","d",":","j","i","t","-","c","a","c","h","e"," ","(","d","e","l","e","t","e","d",")">>,
      <<"/","m","e","m","f","d",":","j","i","t","-","z","y","g","o","t","e","-","c","a","c","h","e"," ","(","d","e","l","e","t","e","d",")">>, <<"[","a","n","o","n",":","x","]">>,
      <<"[","a","n","o","n",":","d","a","l","v","i","k","-","L","i","n","e","a","r","A","l","l","o","c","]">>, <<"[","a","n","o","n",":","d","a","l","v","i","k","-","a","l","l","o","c"," ","s","p","a","c","e","]">>,
      <<"[","a","n","o","n",":","d","a","l","v","i","k","-","m","a","i","n"," ","s","p","a","c","e","]">>, <<"[","a","n","o","n",":","d","a","l","v","i","k","-","l","a","r","g","e"," ","o","b","j","e","c","t"," ","s","p","a","c","e","]">>,
      <<"[","a","n","o","n",":","d","a","l","v","i","k","-","f","r","e","e"," ","l","i","s","t"," ","l","a","r","g","e"," ","o","b","j","e","c","t"," ","s","p","a","c","e","]">>,
      <<"[","a","n","o","n",":","d","a","l","v","i","k","-","n","o","n"," ","m","o","v","i","n","g"," ","s","p","a","c","e","]">>, <<"[","a","n","o","n",":","d","a","l","v","i","k","-","z","y","g","o","t","e"," ","s","p","a","c","e","]">>,
      <<"[","a","n","o","n",":","d","a","l","v","i","k","-","i","n","d","i","r","e","c","t"," ","r","e","f"," ","t","a","b","l","e","]">>, <<"[","a","n","o","n",":","d","a","l","v","i","k","-","j","i","t","-","c","o","d","e","-","c","a","c","h","e","]">>,
      <<"[","a","n","o","n",":","d","a","l","v","i","k","-","d","a","t","a","-","c","o","d","e","-","c","a","c","h","e","]">>, <<"[","a","n","o","n",":","d","a","l","v","i","k","-","C","o","m","p","i","l","e","r","M","e","t","a","d","a","t","a","]">>,
      <<"[","a","n","o","n",":","d","a","l","v","i","k","-","x","]">>, <<"/","a">>, <<"[","v","d","s","o","]">> }

SmapsVma(startPage, endPage, name, usage) ==
    [VmaFromMapInfo(EmptyVma, MapInfo(startPage, endPage, name, 5, 0)) EXCEPT !.usage = usage]

OnePage == [ZeroUsage EXCEPT !.rss = 1, !.pss = 1, !.uss = 1, !.private_dirty = 1]

\* every name once, at pages [1, 2), and VMAs without a name: next to it, next
\* to that one, and apart
ClassifyVmas ==
    {SmapsVma(1, 2, n, OnePage) : n \in HeapNames}
    \cup {SmapsVma(2, 3, EmptyName, OnePage), SmapsVma(3, 4, EmptyName, OnePage),
          SmapsVma(5, 6, EmptyName, OnePage)}

\* the usages of a VMA: nothing resident; pages shared with another process;
\* private pages only; shared pages of which this process is the only user;
\* pages in swap
HeapUsages ==
    { ZeroUsage,
      [ZeroUsage EXCEPT !.rss = 5, !.pss = 3, !.uss = 1, !.private_clean = 1,
                        !.shared_clean = 4],
      [ZeroUsage EXCEPT !.rss = 2, !.pss = 2, !.uss = 2, !.private_clean = 1,
                        !.private_dirty = 1],
      [ZeroUsage EXCEPT !.rss = 4, !.pss = 4, !.shared_clean = 2, !.shared_dirty = 2],
      [ZeroUsage EXCEPT !.rss = 1, !.pss = 1, !.uss = 1, !.private_dirty = 1,
                        !.swap = 1, !.swap_pss = 1] }

\* a name of every heap that has sub-heaps, a library and what follows it
StatsNames ==
    { <<"/","a",".","s","o">>, <<"[","h","e","a","p","]">>, <<"[","a","n","o","n",":","d","a","l","v","i","k","-","a","l","l","o","c"," ","s","p","a","c","e","]">>, <<"[","a","n","o","n",":","d","a","l","v","i","k","-","x","]">>,
      <<"/","d","e","v","/","a","s","h","m","e","m","/","j","i","t","-","z","y","g","o","t","e","-","c","a","c","h","e">>, <<"/","a",".","o","d","e","x">>, <<"/","b","o","o","t",".","a","r","t">> }

StatsVmas ==
    {SmapsVma(1, 2, n, u) : n \in StatsNames, u \in HeapUsages}
    \cup {SmapsVma(2, 3, EmptyName, u) : u \in HeapUsages}

NoScan ==
    [name |-> EmptyName, start |-> 0, usage |-> ZeroUsage,
     which_heap |-> "HEAP_UNKNOWN", sub_heap |-> "HEAP_UNKNOWN",
     is_swappable |-> FALSE, swapable_pss |-> 0,
     prev_end |-> 0, prev_heap |-> "HEAP_UNKNOWN"]

\* threads of the process that call IsSmapsRollupSupported
NThreads == 3
\* most calls made by one thread
MaxProbeCalls == 2

Threads == 1..NThreads

\* enum MemEvent (memevents.h)
OOM_KILL == 0
NR_MEM_EVENTS == 1
ERROR == -1
\* the lowest descriptor that is free when the listener is constructed
FirstFd == 3
\* most calls made on the listener
MaxListenerCalls == 4

isValidEventType(event_type) ==
    event_type < NR_MEM_EVENTS /\ event_type > ERROR

\* the valid event types, and the arguments callers pass
MemEvents == {e \in ERROR..NR_MEM_EVENTS : isValidEventType(e)}
EventArgs == ERROR..NR_MEM_EVENTS

\* the listener after construction (lines 20-23), nothing open
NewListener ==
    [mEpfd |-> -1, mFds |-> [e \in MemEvents |-> -1],
     mPendingEvents |-> << >>, fds |-> {}, epoll |-> {}, opened |-> 0]


(***************************************************************************)
(* State                                                                   *)
(***************************************************************************)
VARIABLES
    arch_x86_64,        \* the build: __x86_64__ defined
    ncalls,             \* API calls made so far
    op,                 \* the API call in progress or last finished
    pc,                 \* "idle" | "scan" | "getusage" | "walk"
    result,             \* what the last finished call returned
    reason,             \* which return statement ended the last call
    \* ForEachVmaFromFile / ForEachVmaFromMaps : locals of the scan loop
    callback,           \* which callback the scan was given
    read_smaps_fields,
    parsing_vma,
    vma,
    \* observation of the scan
    nlines,             \* lines consumed
    headers,            \* names of the well-formed header lines consumed
    delivered,          \* names of the VMAs passed to the callback
    lastCb,             \* the Vma passed to the latest callback
    cbFailed,           \* the callback has returned false
    cbAfterFalse,       \* a callback was made after one returned false
    walked,             \* names of the Vmas this call gave to ReadVmaStats
    \* showmap
    g_vmas_name_map,    \* name -> VmaInfo
    recent,             \* the static VmaInfo of collect_vma_merge_by_names
    merged,             \* the Vmas collected: the name each went under, its usage
    g_show_addr,        \* option -a
    g_vmas,             \* the VmaInfos collected by collect_vma, sorted
    shown,              \* the VmaInfos made by collect_vma, in the order of the file
    \* the ProcMemInfo object
    get_wss_,
    pgflags_,
    pgflags_mask_,
    maps_,
    usage_,
    swap_offsets_,
    \* arguments of Smaps()
    collect_usage,
    collect_swap_offsets,
    \* ReadMaps / GetUsageStats / FillInVmaStats / ReadVmaStats
    rm,                 \* the arguments ReadMaps was called with
    widx,               \* GetUsageStats: index in maps_ of the VMA walked
    argVma,             \* FillInVmaStats: the caller's Vma
    use_kb,             \* FillInVmaStats: the caller's use_kb
    w,                  \* ReadVmaStats: loop locals, usage and swap offsets
    wp,                 \* ReadVmaStats: its arguments
    \* observation of a collection
    usage_before,       \* usage of the caller's Vma when its walk began
    last_page,          \* the latest page put to the working-set test
    pagemap_reads,      \* the pread64 calls of the walk, in order
    pass_start,         \* usage_ and swap_offsets_ when the collection began
    maps_reads,         \* times the object has had /proc/<pid>/maps parsed
    nswapped,           \* swapped pages that the object's walks came to
    \* ExtractAndroidHeapStatsFromFile
    stats,              \* the caller's AndroidHeapStats table
    foundSwapPss,
    prev_end,
    prev_heap,
    \* observation of the heap scan
    scanned,            \* VMAs handed to vma_scan in this call
    last_scan,          \* the latest of them, and what vma_scan made of it
    scan_log,           \* all of them: name, addresses, which_heap
    \* SmapsOrRollupFromFile, SmapsOrRollupPssFromFile
    rollup_stats,       \* the MemUsage that the call was given, if any
    rollup_pss,         \* the uint64_t that the call was given, if any
    rollup_lines,       \* observation: the lines read in this call
    \* IsSmapsRollupSupported
    g_rollup_support,
    kernel_has_rollup,  \* the kernel has /proc/<pid>/smaps_rollup
    t_pc,               \* where each thread is in its call
    t_access,           \* each thread's answer from access()
    t_calls,            \* calls made by each thread
    probes,             \* observation: calls of access() made
    answers,            \* observation: the values returned by the calls
    \* MemEventListener
    mEpfd,
    mFds,
    mPendingEvents,
    open_fds,           \* the descriptors that the process has open
    epoll_set,          \* the descriptors in the interest list of mEpfd
    nopened,            \* observation: descriptors opened so far
    arg_event,          \* the argument of the latest call that has one
    ret_event,          \* the value returned by the latest listen()
    op2,                \* the latest call of a second thread on the listener
    \* one iteration of the loop of ReadVmaStats, taken alone
    pg_in,              \* its arguments, locals and the kernel's answers
    pg_out,             \* its locals afterwards
    \* procrank
    rank_in,            \* its arguments, /proc/meminfo and the processes
    swap_offset_array,  \* slot off is element off + 1
    procs,              \* the records kept for the ranking
    rank_idx            \* the position of the loop under way

scanVars == <<callback, read_smaps_fields, parsing_vma, vma>>
cbVars == <<nlines, headers, delivered, lastCb, cbFailed, cbAfterFalse>>
obsVars == <<cbVars, walked>>
ctorVars == <<arch_x86_64, get_wss_, pgflags_, pgflags_mask_>>
objVars == <<maps_, usage_, swap_offsets_>>
argVars == <<collect_usage, collect_swap_offsets>>
walkVars == <<rm, widx, argVma, use_kb, w, wp, usage_before, last_page, pagemap_reads>>
passVars == <<pass_start, maps_reads, nswapped>>
toolVars == <<g_vmas_name_map, recent, merged, g_show_addr, g_vmas, shown>>
\* the parser, the ProcMemInfo object and showmap
memVars == <<scanVars, obsVars, ctorVars, toolVars, objVars, argVars, walkVars, passVars>>
heapVars == <<stats, foundSwapPss, prev_end, prev_heap, scanned, last_scan, scan_log>>
\* the state of the other entry points of the library
rollupVars == <<rollup_stats, rollup_pss, rollup_lines>>
probeVars == <<g_rollup_support, kernel_has_rollup, t_pc, t_access, t_calls, probes, answers>>
listenerVars == <<mEpfd, mFds, mPendingEvents, open_fds, epoll_set, nopened, arg_event, ret_event, op2>>
pageVars == <<pg_in, pg_out>>
rankVars == <<rank_in, swap_offset_array, procs, rank_idx>>
otherVars == <<heapVars, rollupVars, probeVars, listenerVars, pageVars, rankVars>>
vars == <<ncalls, op, pc, result, reason, memVars, otherVars>>

\* ProcMemInfo(pid, get_wss, pgflags, pgflags_mask): the page-flag filters
\* the object is built with
\* the answers of the kernel in a pass over all the VMAs of a process: every
\* failure, and a page of each kind that the pass tells apart
PassObs ==
    PagemapObs
    \cup {ObsPageFlagsFail, ObsPageMapCountFail({}),
          ObsPresent({"REFERENCED"}, 1, 1), ObsPresent({"DIRTY"}, 2, 0)}

PageFilters ==
    { [pgflags |-> {}, pgflags_mask |-> {}],
      [pgflags |-> {"DIRTY"}, pgflags_mask |-> {"DIRTY"}] }

NoReadMaps ==
    [get_wss |-> FALSE, use_pageidle |-> FALSE, update_mem_usage |-> FALSE]

NoWalk == WalkBegin(ZeroUsage, << >>, WalkParams(EmptyVma, FALSE, FALSE, FALSE, FALSE, {}, {}), TRUE)

\* the arguments of ReadVmaStats, as its callers can make them
PageParams ==
    {WalkParams(VmaFromMapInfo(EmptyVma, m), gw, pi, um, us, f.pgflags, f.pgflags_mask) :
        m \in MapInfos, gw \in BOOLEAN, pi \in BOOLEAN, um \in BOOLEAN,
        us \in BOOLEAN, f \in PageFilters}

\* an iteration of the loop: the arguments, the locals at the first page of
\* a Vma whose usage is zero or holds counts already, and the kernel's
\* answers for the page
PageInputs ==
    {[p |-> p, o |-> o, c |-> WalkBegin(u, << >>, p, TRUE)] :
        p \in PageParams, o \in PageObs(TRUE),
        u \in {ZeroUsage, [ZeroUsage EXCEPT !.rss = pagesz_kb, !.uss = pagesz_kb,
                                            !.pss = pagesz_kb, !.swap = pagesz_kb,
                                            !.private_clean = pagesz_kb]}}

(***************************************************************************)
(* procrank (libsmapinfo): the records of the processes and the table of   *)
(* the swap slots                                                          *)
(***************************************************************************)
MaxProcs == 2       \* processes handed to procrank
MaxOffsets == 2     \* swap offsets of one process
RankSlots == 2      \* swap_total / getpagesize()
USHRT_MAX == 65535

RECURSIVE SeqsUpTo(_, _)
SeqsUpTo(S, n) ==
    IF n = 0 THEN {<< >>}
    ELSE LET shorter == SeqsUpTo(S, n - 1)
         IN  shorter \cup {Append(q, x) : q \in shorter, x \in S}

\* ProcessRecord(pid, ...): the record is not valid when ProcMemInfo or
\* oom_score_adj could not be read; otherwise usage_or_wss_ and
\* swap_offsets_ are what Usage()/Wss() and SwapOffsets() returned.  An
\* offset past RankSlots is past the table.
ProcessRecords ==
    {[valid |-> FALSE, vss |-> 0, swap_offsets_ |-> << >>],
     [valid |-> TRUE, vss |-> 0, swap_offsets_ |-> << >>]}
    \cup {[valid |-> TRUE, vss |-> pagesz_kb, swap_offsets_ |-> q] :
             q \in SeqsUpTo(1..(RankSlots + 1), MaxOffsets)}

\* procrank(pgflags, pgflags_mask, pids, ..., get_wss, ...): whether
\* /proc/meminfo was read, get_wss, whether it shows swap, and the record
\* that is built for each pid
RankInputs ==
    [meminfo_ok : BOOLEAN, show_wss : BOOLEAN, swap_enabled : BOOLEAN,
     pids : SeqsUpTo(ProcessRecords, MaxProcs)]

NoRankInput ==
    [meminfo_ok |-> TRUE, show_wss |-> FALSE, swap_enabled |-> FALSE, pids |-> << >>]

\* std::vector<uint16_t> swap_offset_array(swap_total / getpagesize() + 1, 0)
NewSwapOffsetArray(swap_enabled) ==
    [i \in 1..((IF swap_enabled THEN RankSlots ELSE 0) + 1) |-> 0]

\* count_swap_offsets(proc, swap_offset_array, err), from offset i of proc on
RECURSIVE count_swap_offsets_from(_, _, _)
count_swap_offsets_from(swp_offs, arr, i) ==
    IF i > Len(swp_offs) THEN [ok |-> TRUE, arr |-> arr]
    ELSE LET off == swp_offs[i]
         IN  IF off >= Len(arr) THEN [ok |-> FALSE, arr |-> arr]
             ELSE IF arr[off + 1] = USHRT_MAX THEN [ok |-> FALSE, arr |-> arr]
             ELSE count_swap_offsets_from(swp_offs, [arr EXCEPT ![off + 1] = @ + 1], i + 1)

count_swap_offsets(swp_offs, arr) == count_swap_offsets_from(swp_offs, arr, 1)

\* the element that CalculateSwap divides by; outside of the table the read
\* is undefined
Divisor(arr, off) == IF off < Len(arr) THEN arr[off + 1] ELSE -1

DivisorsOf(swp_offs, arr) == [i \in 1..Len(swp_offs) |-> Divisor(arr, swp_offs[i])]

RECURSIVE SumOfShares(_, _)
SumOfShares(divs, i) ==
    IF i > Len(divs) THEN 0
    ELSE (getpagesize \div divs[i]) + SumOfShares(divs, i + 1)

\* ProcessRecord::CalculateSwap, where every divisor is an element of the
\* table and none is zero; zswap_, a product with a float, is left out
CalculateSwap(swp_offs, arr) ==
    LET divs == DivisorsOf(swp_offs, arr)
    IN  [proportional_swap_ |-> SumOfShares(divs, 1),
         unique_swap_ |-> getpagesize * Cardinality({i \in 1..Len(divs) : divs[i] = 1}),
         divisors |-> divs]

CalculateSwapDefined(swp_offs, arr) ==
    \A i \in 1..Len(swp_offs) : Divisor(arr, swp_offs[i]) >= 1

\* a record kept in procs
Ranked(proc, counted) ==
    [swap_offsets_ |-> proc.swap_offsets_, counted |-> counted, calculated |-> FALSE,
     proportional_swap_ |-> 0, unique_swap_ |-> 0, divisors |-> << >>]

\* std::sort with one of the six orders: the keys are fields of the usage
\* that the records here do not carry, so any order may come out
Orders(q) ==
    {r \in [1..Len(q) -> 1..Len(q)] : \A i, j \in 1..Len(q) : i # j => r[i] # r[j]}

Sorted(q) == {[i \in 1..Len(q) |-> q[r[i]]] : r \in Orders(q)}

NoPageInput ==
    [p |-> WalkParams(EmptyVma, FALSE, FALSE, FALSE, FALSE, {}, {}),
     o |-> ObsUnmapped, c |-> NoWalk]

\* the state after construction, but for the constructor's arguments, the
\* build, and the iteration of ReadVmaStats that is taken alone
InitCommon ==
    /\ pg_out = NoWalk
    /\ op2 = [call |-> "none", last |-> FALSE]
    /\ swap_offset_array = << >>
    /\ procs = << >>
    /\ rank_idx = 0
    /\ ncalls = 0
    /\ op = "none"
    /\ pc = "idle"
    /\ result = TRUE
    /\ reason = "none"
    /\ callback = "none"
    /\ read_smaps_fields = FALSE
    /\ parsing_vma = FALSE
    /\ vma = EmptyVma
    /\ nlines = 0
    /\ headers = << >>
    /\ delivered = << >>
    /\ lastCb = EmptyVma
    /\ cbFailed = FALSE
    /\ cbAfterFalse = FALSE
    /\ walked = << >>
    /\ g_vmas_name_map = << >>
    /\ recent = VmaInfo(EmptyVma, FALSE, 0)
    /\ merged = << >>
    /\ g_show_addr = FALSE
    /\ g_vmas = << >>
    /\ shown = << >>
    /\ maps_ = << >>
    /\ usage_ = ZeroUsage
    /\ swap_offsets_ = << >>
    /\ collect_usage = FALSE
    /\ collect_swap_offsets = FALSE
    /\ rm = NoReadMaps
    /\ widx = 0
    /\ argVma = EmptyVma
    /\ use_kb = TRUE
    /\ w = NoWalk
    /\ wp = WalkParams(EmptyVma, FALSE, FALSE, FALSE, FALSE, {}, {})
    /\ usage_before = ZeroUsage
    /\ last_page = NoPage
    /\ pagemap_reads = << >>
    /\ pass_start = [usage |-> ZeroUsage, swaps |-> << >>]
    /\ maps_reads = 0
    /\ nswapped = 0
    /\ mEpfd = NewListener.mEpfd
    /\ mFds = NewListener.mFds
    /\ mPendingEvents = NewListener.mPendingEvents
    /\ open_fds = NewListener.fds
    /\ epoll_set = NewListener.epoll
    /\ nopened = NewListener.opened
    /\ arg_event = ERROR
    /\ ret_event = ERROR
    /\ stats = ZeroStats
    /\ foundSwapPss = FALSE
    /\ prev_end = 0
    /\ prev_heap = "HEAP_UNKNOWN"
    /\ scanned = 0
    /\ last_scan = NoScan
    /\ scan_log = << >>
    /\ rollup_stats = ZeroUsage
    /\ rollup_pss = 0
    /\ rollup_lines = << >>
    /\ g_rollup_support = "UNTRIED"
    /\ t_pc = [t \in Threads |-> "idle"]
    /\ t_access = [t \in Threads |-> FALSE]
    /\ t_calls = [t \in Threads |-> 0]
    /\ probes = 0
    /\ answers = {}

\* the state after construction, but for the constructor's arguments and
\* the build
InitState ==
    /\ InitCommon
    /\ pg_in = NoPageInput
    /\ rank_in = NoRankInput

\* ProcMemInfo(pid): get_wss = false, pgflags = 0, pgflags_mask = 0
DefaultCtor ==
    /\ get_wss_ = FALSE
    /\ pgflags_ = {}
    /\ pgflags_mask_ = {}

\* the free functions of the parser use no ProcMemInfo object
Init ==
    /\ InitState
    /\ kernel_has_rollup = TRUE
    /\ DefaultCtor
    /\ arch_x86_64 = FALSE

InitSmaps ==
    /\ InitState
    /\ kernel_has_rollup = TRUE
    /\ DefaultCtor
    /\ arch_x86_64 \in BOOLEAN

\* ProcMemInfo(pid, get_wss)
InitUsage ==
    /\ InitState
    /\ kernel_has_rollup = TRUE
    /\ get_wss_ \in BOOLEAN
    /\ pgflags_ = {}
    /\ pgflags_mask_ = {}
    /\ arch_x86_64 = TRUE

\* ProcMemInfo(pid, get_wss, pgflags, pgflags_mask)
InitFill ==
    /\ InitState
    /\ kernel_has_rollup = TRUE
    /\ get_wss_ \in BOOLEAN
    /\ \E f \in PageFilters :
          /\ pgflags_ = f.pgflags
          /\ pgflags_mask_ = f.pgflags_mask
    /\ arch_x86_64 = TRUE

(***************************************************************************)
(* The callback handed to a scan, as the effect of one call of it.         *)
(*   "user"          a caller's callback: it sees the Vma and answers true *)
(*                   or false as it likes (env.ret)                        *)
(*   "collect_vmas"  the lambda of ProcMemInfo::Smaps                      *)
(*   "collect_vma_merge_by_names"  the callback of showmap -m              *)
(***************************************************************************)
\* the test on g_excluded_vmas, were it to find nothing
IsExcluded_Nothing(name, x86_64) == FALSE

\* std::find(g_excluded_vmas.begin(), g_excluded_vmas.end(), name)
IsExcluded(name, x86_64) == name \in g_excluded_vmas(x86_64)

\* the effect of no call
NoCb ==
    [called |-> FALSE, ret |-> TRUE, arg |-> vma, v |-> vma, walked |-> FALSE,
     maps |-> maps_, usage |-> usage_, swaps |-> swap_offsets_,
     name_map |-> g_vmas_name_map, recent |-> recent, merged |-> merged,
     vmas |-> g_vmas, shown |-> shown]

user_callback(v, env) ==
    [NoCb EXCEPT !.called = TRUE, !.ret = env.ret, !.arg = v, !.v = v]

\* lines 220-235; the page walk called with get_wss, use_pageidle,
\* update_mem_usage, update_swap_usage all false
collect_vmas(v, env) ==
    IF IsExcluded(v.name, arch_x86_64)
    THEN [NoCb EXCEPT !.called = TRUE, !.ret = TRUE, !.arg = v, !.v = v]
    ELSE LET stored == Append(maps_, v)
             total == IF collect_usage THEN add_mem_usage(usage_, v.usage)
                                       ELSE usage_
             p == WalkParams(v, FALSE, FALSE, FALSE, FALSE,
                             pgflags_, pgflags_mask_)
             c == ReadVmaStats(v.usage, swap_offsets_, p, TRUE, env.obs)
         IN  IF collect_swap_offsets
             THEN [NoCb EXCEPT !.called = TRUE, !.ret = (c.st = "ok"),
                               !.arg = v, !.v = [v EXCEPT !.usage = c.usage],
                               !.walked = TRUE, !.maps = stored,
                               !.usage = total, !.swaps = c.swaps]
             ELSE [NoCb EXCEPT !.called = TRUE, !.ret = TRUE, !.arg = v,
                               !.v = v, !.maps = stored, !.usage = total]

(***************************************************************************)
(* tools/showmap.cpp: the callback of showmap -m                           *)
(***************************************************************************)
is_library(name) ==
    Len(name) > 4 /\ name[1] = "/" /\ EndsWith(name, SoSuffix)

infer_vma_name(current, rec) ==
    IF current.vma.name # EmptyName THEN current
    ELSE IF rec.vma.end = current.vma.start /\ is_library(rec.vma.name)
    THEN [current EXCEPT !.vma.name = rec.vma.name, !.is_bss = TRUE]
    ELSE [current EXCEPT !.vma.name = AnonName]

\* lines 283-299: what is added to the VmaInfo found under the name
MergeInto(match, current) ==
    LET m == match.vma.usage
        c == current.vma.usage
    IN  [match EXCEPT
           !.vma.usage =
               [m EXCEPT !.vss = @ + c.vss,
                         !.rss = @ + c.rss,
                         !.pss = @ + c.pss,
                         !.shared_clean = @ + c.shared_clean,
                         !.shared_dirty = @ + c.shared_dirty,
                         !.private_clean = @ + c.private_clean,
                         !.private_dirty = @ + c.private_dirty,
                         !.swap = @ + c.swap,
                         !.swap_pss = @ + c.swap_pss,
                         !.anon_huge_pages = @ + c.anon_huge_pages,
                         !.shmem_pmd_mapped = @ + c.shmem_pmd_mapped,
                         !.file_pmd_mapped = @ + c.file_pmd_mapped,
                         !.shared_hugetlb = @ + c.shared_hugetlb,
                         !.private_hugetlb = @ + c.shared_hugetlb],
           !.is_bss = @ /\ current.is_bss]

\* the callback returns nothing: the scan goes on
collect_vma_merge_by_names(v, env) ==
    LET first == VmaInfo(v, FALSE, 1)
        current == infer_vma_name(first, recent)
        name == current.vma.name
        cb == [NoCb EXCEPT !.called = TRUE, !.ret = TRUE, !.arg = v, !.v = v]
    IN  IF DOMAIN g_vmas_name_map = {}
        THEN [cb EXCEPT !.name_map = (v.name :> first),
                        !.recent = first,
                        !.merged = Append(merged, [name |-> v.name,
                                                   usage |-> v.usage])]
        ELSE [cb EXCEPT
                !.name_map =
                    IF name \notin DOMAIN g_vmas_name_map
                    THEN (name :> current) @@ g_vmas_name_map
                    ELSE [g_vmas_name_map EXCEPT
                             ![name] = MergeInto(@, current)],
                !.recent = current,
                !.merged = Append(merged, [name |-> name, usage |-> v.usage])]

\* the characters of the names above, in the order of their codes
Chars ==
    << " ", "(", ")", "-", ".", "/", "0", "1", "3", ":", "@", "A", "C", "G",
       "L", "M", "P", "S", "W", "[", "]", "_", "a", "b", "c", "d", "e", "f",
       "g", "h", "i", "j", "k", "l", "m", "n", "o", "p", "r", "s", "t", "u",
       "v", "w", "x", "y", "z" >>

CharCode(c) == CHOOSE i \in 1..Len(Chars) : Chars[i] = c

\* strcmp(a, b) < 0
RECURSIVE StrLess(_, _)
StrLess(a, b) ==
    IF b = << >> THEN FALSE
    ELSE IF a = << >> THEN TRUE
    ELSE IF Head(a) = Head(b) THEN StrLess(Tail(a), Tail(b))
    ELSE CharCode(Head(a)) < CharCode(Head(b))

insert_before(a, b, show_addr) ==
    IF show_addr
    THEN \/ a.vma.start < b.vma.start
         \/ (a.vma.start = b.vma.start /\ a.vma.end < b.vma.end)
    ELSE StrLess(a.vma.name, b.vma.name)

\* the loop of collect_vma: current goes before the first element that it
\* is to be inserted before, or to the end
InsertSorted(vmas, current, show_addr) ==
    LET before == {i \in 1..Len(vmas) : insert_before(current, vmas[i], show_addr)}
    IN  IF before = {} THEN Append(vmas, current)
        ELSE LET it == CHOOSE i \in before : \A j \in before : i <= j
             IN  SubSeq(vmas, 1, it - 1) \o <<current>> \o SubSeq(vmas, it, Len(vmas))

\* the callback of showmap without -m; it returns nothing: the scan goes on
collect_vma(v, env) ==
    LET first == VmaInfo(v, FALSE, 1)
        current == infer_vma_name(first, recent)
        cb == [NoCb EXCEPT !.called = TRUE, !.ret = TRUE, !.arg = v, !.v = v]
    IN  IF g_vmas = << >>
        THEN [cb EXCEPT !.vmas = <<first>>,
                        !.recent = first,
                        !.shown = Append(shown, first)]
        ELSE [cb EXCEPT !.vmas = InsertSorted(g_vmas, current, g_show_addr),
                        !.recent = current,
                        !.shown = Append(shown, current)]

\* what a call of the callback draws from its environment
CbInputs(cb, v) ==
    CASE cb = "user" -> {[ret |-> b, obs |-> << >>] : b \in BOOLEAN}
      [] cb = "collect_vmas" ->
             IF collect_swap_offsets
             THEN {[ret |-> TRUE, obs |-> s] :
                       s \in [1..NumPages(v) -> PagemapObs]}
             ELSE {[ret |-> TRUE, obs |-> << >>]}
      [] OTHER -> {[ret |-> TRUE, obs |-> << >>]}

Cb(cb, v, env) ==
    CASE cb = "user" -> user_callback(v, env)
      [] cb = "collect_vmas" -> collect_vmas(v, env)
      [] cb = "collect_vma_merge_by_names" -> collect_vma_merge_by_names(v, env)
      [] cb = "collect_vma" -> collect_vma(v, env)
      [] OTHER -> NoCb

\* the return statements of a call
Return(res, why) ==
    /\ pc' = "idle"
    /\ result' = res
    /\ reason' = why

\* a call gets under way
Goto(where) ==
    /\ pc' = where
    /\ reason' = "none"
    /\ UNCHANGED result

\* Smaps() empties maps_ when the scan it started returned false
SmapsClear(maps, res) == IF op = "Smaps" /\ ~res THEN << >> ELSE maps

\* the state after the callback call e, the scan returning res (or going on)
Apply(e, res) ==
    /\ delivered' = IF e.called THEN Append(delivered, e.arg.name)
                                ELSE delivered
    /\ lastCb' = IF e.called THEN e.arg ELSE lastCb
    /\ cbFailed' = (cbFailed \/ (e.called /\ ~e.ret))
    /\ cbAfterFalse' = (cbAfterFalse \/ (e.called /\ cbFailed))
    /\ walked' = IF e.walked THEN Append(walked, e.arg.name) ELSE walked
    /\ g_vmas_name_map' = e.name_map
    /\ recent' = e.recent
    /\ merged' = e.merged
    /\ g_vmas' = e.vmas
    /\ shown' = e.shown
    /\ UNCHANGED g_show_addr
    /\ maps_' = SmapsClear(e.maps, res)
    /\ usage_' = e.usage
    /\ swap_offsets_' = e.swaps

ResetScan ==
    /\ parsing_vma' = FALSE
    /\ vma' = EmptyVma
    /\ nlines' = 0
    /\ headers' = << >>
    /\ delivered' = << >>
    /\ lastCb' = EmptyVma
    /\ cbFailed' = FALSE
    /\ cbAfterFalse' = FALSE
    /\ walked' = << >>

(***************************************************************************)
(* ForEachVmaFromFile(path, callback, read_smaps_fields), also reached     *)
(* through ProcMemInfo::ForEachVma                                         *)
(***************************************************************************)
InFileScan == pc = "scan" /\ op \in {"ForEachVmaFromFile", "Smaps", "showmap"}

Call_ForEachVmaFromFile ==
    /\ pc = "idle"
    /\ ncalls < MaxCalls
    /\ ncalls' = ncalls + 1
    /\ op' = "ForEachVmaFromFile"
    /\ callback' = "user"
    /\ \E smaps \in BOOLEAN : read_smaps_fields' = smaps
    /\ ResetScan
    /\ \E opened \in BOOLEAN :
          IF opened
          THEN Goto("scan")
          ELSE Return(FALSE, "open")
    /\ UNCHANGED <<ctorVars, otherVars, toolVars, objVars, argVars, walkVars, passVars>>

\* the line is a stats field of the VMA being collected: "continue"
FE_StatLine ==
    /\ InFileScan
    /\ nlines < MaxLines
    /\ parsing_vma
    /\ \E line \in InputLines(callback) :
          /\ parse_smaps_is_field(line)
          /\ vma' = [vma EXCEPT !.usage = parse_smaps_field(line, @)]
    /\ nlines' = nlines + 1
    /\ UNCHANGED <<ncalls, op, pc, result, reason, callback,
                   read_smaps_fields, parsing_vma, headers, delivered,
                   lastCb, cbFailed, cbAfterFalse, walked, ctorVars, otherVars, toolVars,
                   objVars, argVars, walkVars, passVars>>

\* a scan that forgets the pending VMA at the line that ends its stats
FlushPending_Forgotten(parsing) == FALSE

\* the callback made when the stats of the pending VMA end at this line
FlushPending(parsing) == parsing

\* a scan that goes on after a callback that answered false
AbortOnFalse_Ignored(ret) == FALSE

\* the return after a callback that answered false
AbortOnFalse(ret) == ~ret

\* any other line: flush the pending VMA, then the line must be a header
FE_HeaderLine ==
    /\ InFileScan
    /\ nlines < MaxLines
    /\ \E line \in InputLines(callback) :
        /\ ~(parsing_vma /\ parse_smaps_is_field(line))
        /\ nlines' = nlines + 1
        /\ LET flush == FlushPending(parsing_vma)
               hdrOk == line.kind = "header"
           IN  IF flush
               THEN \E env \in CbInputs(callback, vma) :
                     LET e == Cb(callback, vma, env)
                         v2 == VmaFromMapInfo(Vma_clear(e.v), line.info)
                     IN  IF AbortOnFalse(e.ret)
                         THEN /\ Apply(e, FALSE)
                              /\ Return(FALSE, "callback")
                              /\ vma' = e.v
                              /\ UNCHANGED <<parsing_vma, headers>>
                         ELSE IF ~hdrOk
                         THEN /\ Apply(e, FALSE)
                              /\ Return(FALSE, "parse")
                              /\ vma' = Vma_clear(e.v)
                              /\ parsing_vma' = FALSE
                              /\ UNCHANGED headers
                         ELSE /\ Apply(e, TRUE)
                              /\ vma' = v2
                              /\ parsing_vma' = read_smaps_fields
                              /\ headers' = Append(headers, v2.name)
                              /\ UNCHANGED <<pc, result, reason>>
               ELSE IF ~hdrOk
               THEN /\ Apply(NoCb, FALSE)
                    /\ Return(FALSE, "parse")
                    /\ vma' = Vma_clear(vma)
                    /\ UNCHANGED <<parsing_vma, headers>>
               ELSE IF read_smaps_fields
               THEN /\ Apply(NoCb, TRUE)
                    /\ vma' = VmaFromMapInfo(Vma_clear(vma), line.info)
                    /\ parsing_vma' = TRUE
                    /\ headers' = Append(headers, line.info.name)
                    /\ UNCHANGED <<pc, result, reason>>
               ELSE \* maps mode: the callback is made right away
                    LET v2 == VmaFromMapInfo(Vma_clear(vma), line.info)
                    IN  \E env \in CbInputs(callback, v2) :
                         LET e == Cb(callback, v2, env)
                         IN  /\ vma' = e.v
                             /\ headers' = Append(headers, v2.name)
                             /\ UNCHANGED parsing_vma
                             /\ IF AbortOnFalse(e.ret)
                                THEN /\ Apply(e, FALSE)
                                     /\ Return(FALSE, "callback")
                                ELSE /\ Apply(e, TRUE)
                                     /\ UNCHANGED <<pc, result, reason>>
    /\ UNCHANGED <<ncalls, op, callback, read_smaps_fields, ctorVars, otherVars, argVars, walkVars, passVars>>

\* a scan that forgets the last VMA at the end of the stream
FlushAtEof_Forgotten(parsing) == FALSE

\* the flush of the last VMA once getline finds no more line
FlushAtEof(parsing) == parsing

FE_Eof ==
    /\ InFileScan
    /\ IF FlushAtEof(parsing_vma)
       THEN \E env \in CbInputs(callback, vma) :
              LET e == Cb(callback, vma, env)
              IN  /\ vma' = e.v
                  /\ IF AbortOnFalse(e.ret)
                     THEN /\ Apply(e, FALSE)
                          /\ Return(FALSE, "callback")
                     ELSE /\ Apply(e, TRUE)
                          /\ Return(TRUE, "eof")
       ELSE /\ Apply(NoCb, TRUE)
            /\ Return(TRUE, "eof")
            /\ UNCHANGED vma
    /\ UNCHANGED <<ncalls, op, callback, read_smaps_fields, parsing_vma,
                   nlines, headers, ctorVars, otherVars, argVars, walkVars, passVars>>

(***************************************************************************)
(* ProcMemInfo::ForEachVmaFromMaps(callback [, mapsBuffer])                *)
(* ReadProcessMaps hands every line of /proc/<pid>/maps to vmaCollect and  *)
(* returns false at the first line it cannot parse.                        *)
(***************************************************************************)
Call_ForEachVmaFromMaps ==
    /\ pc = "idle"
    /\ ncalls < MaxCalls
    /\ ncalls' = ncalls + 1
    /\ op' = "ForEachVmaFromMaps"
    /\ callback' = "user"
    /\ read_smaps_fields' = FALSE
    /\ ResetScan
    /\ \E opened \in BOOLEAN :
          IF opened
          THEN Goto("scan")
          ELSE Return(FALSE, "open")
    /\ UNCHANGED <<ctorVars, otherVars, toolVars, objVars, argVars, walkVars, passVars>>

\* vmaCollect returns nothing: what the callback answered stops nothing
vmaCollect(ret) == FALSE

FM_Line ==
    /\ pc = "scan" /\ op = "ForEachVmaFromMaps"
    /\ nlines < MaxLines
    /\ nlines' = nlines + 1
    /\ \E line \in InputLines(callback) :
          IF line.kind = "header"
          THEN LET v2 == VmaFromMapInfo(vma, line.info)
               IN  \E env \in CbInputs(callback, v2) :
                     LET e == Cb(callback, v2, env)
                     IN  /\ vma' = e.v
                         /\ headers' = Append(headers, v2.name)
                         /\ IF vmaCollect(e.ret)
                            THEN /\ Apply(e, FALSE)
                                 /\ Return(FALSE, "callback")
                            ELSE /\ Apply(e, TRUE)
                                 /\ UNCHANGED <<pc, result, reason>>
          ELSE /\ Apply(NoCb, FALSE)
               /\ Return(FALSE, "parse")
               /\ UNCHANGED <<vma, headers>>
    /\ UNCHANGED <<ncalls, op, callback, read_smaps_fields, parsing_vma,
                   ctorVars, otherVars, argVars, walkVars, passVars>>

FM_Eof ==
    /\ pc = "scan" /\ op = "ForEachVmaFromMaps"
    /\ Return(TRUE, "eof")
    /\ UNCHANGED <<ncalls, op, scanVars, obsVars, ctorVars, otherVars, toolVars, objVars, argVars, walkVars, passVars>>

(***************************************************************************)
(* showmap(): ForEachVmaFromFile(g_filename, collect_vma_merge_by_names)   *)
(***************************************************************************)
Call_showmap ==
    /\ pc = "idle"
    /\ ncalls = 0
    /\ ncalls' = ncalls + 1
    /\ op' = "showmap"
    /\ callback' = "collect_vma_merge_by_names"
    /\ read_smaps_fields' = TRUE
    /\ ResetScan
    /\ \E opened \in BOOLEAN :
          IF opened
          THEN Goto("scan")
          ELSE Return(FALSE, "open")
    /\ UNCHANGED <<ctorVars, otherVars, toolVars, objVars, argVars, walkVars, passVars>>

\* showmap(): ForEachVmaFromFile(g_filename, collect_vma), after main has
\* read the options
Call_showmap_collect_vma ==
    /\ pc = "idle"
    /\ ncalls = 0
    /\ ncalls' = ncalls + 1
    /\ op' = "showmap"
    /\ callback' = "collect_vma"
    /\ read_smaps_fields' = TRUE
    /\ ResetScan
    /\ \E a \in BOOLEAN : g_show_addr' = a
    /\ \E opened \in BOOLEAN :
          IF opened
          THEN Goto("scan")
          ELSE Return(FALSE, "open")
    /\ UNCHANGED <<ctorVars, otherVars, g_vmas_name_map, recent, merged, g_vmas, shown,
                   objVars, argVars, walkVars, passVars>>

(***************************************************************************)
(* ProcMemInfo::Smaps(path, collect_usage, collect_swap_offsets)           *)
(***************************************************************************)
Call_Smaps ==
    /\ pc = "idle"
    /\ ncalls < MaxSmaps
    /\ ncalls' = ncalls + 1
    /\ op' = "Smaps"
    /\ callback' = "collect_vmas"
    /\ read_smaps_fields' = TRUE
    /\ ResetScan
    /\ \E cu \in BOOLEAN, cs \in BOOLEAN, fd_ok \in BOOLEAN, opened \in BOOLEAN :
          /\ collect_usage' = cu
          /\ collect_swap_offsets' = cs
          /\ IF maps_ # << >>
             THEN /\ Return(TRUE, "cached")
                  /\ UNCHANGED objVars
             ELSE IF cs /\ ~fd_ok
             THEN /\ Return(FALSE, "pagemap")
                  /\ UNCHANGED objVars
             ELSE IF ~opened
             THEN /\ Return(FALSE, "open")
                  /\ maps_' = << >>
                  /\ UNCHANGED <<usage_, swap_offsets_>>
             ELSE /\ Goto("scan")
                  /\ UNCHANGED objVars
    /\ pass_start' = [usage |-> usage_, swaps |-> swap_offsets_]
    /\ UNCHANGED <<maps_reads, nswapped>>
    /\ UNCHANGED <<ctorVars, otherVars, toolVars, walkVars>>

(***************************************************************************)
(* ProcMemInfo::ReadMaps(get_wss, use_pageidle, get_usage_stats,           *)
(* update_mem_usage) as its callers reach it, up to the call of            *)
(* GetUsageStats.  ReadMapFile reads the whole maps file (file) or fails   *)
(* on a line (parsed = FALSE).                                             *)
(***************************************************************************)
\* the maps files: up to MaxVmas lines, by ascending address
MapsFiles ==
    {f \in UNION {[1..n -> MapInfos] : n \in 0..MaxVmas} :
        \A i \in 1..(Len(f) - 1) : f[i].end <= f[i + 1].start}

RECURSIVE SelectInfos(_, _)
SelectInfos(f, x86_64) ==
    IF f = << >> THEN << >>
    ELSE LET rest == SelectInfos(Tail(f), x86_64)
         IN  IF IsExcluded(Head(f).name, x86_64) THEN rest
             ELSE <<VmaFromMapInfo(EmptyVma, Head(f))>> \o rest

BeginCall(name) ==
    /\ pc = "idle"
    /\ ncalls < MaxCalls
    /\ ncalls' = ncalls + 1
    /\ op' = name
    /\ pass_start' = [usage |-> usage_, swaps |-> swap_offsets_]

ReadMaps(use_pageidle, get_usage_stats, update_mem_usage) ==
    IF maps_ # << >>
    THEN /\ Return(TRUE, "cached")
         /\ UNCHANGED <<objVars, rm, widx, maps_reads>>
    ELSE \E f \in MapsFiles, parsed \in BOOLEAN, fd_ok \in BOOLEAN :
          /\ maps_reads' = maps_reads + 1
          /\ IF ~parsed
             THEN /\ maps_' = << >>
                  /\ Return(FALSE, "parse")
                  /\ UNCHANGED <<usage_, swap_offsets_, rm, widx>>
             ELSE IF ~get_usage_stats
             THEN /\ maps_' = SelectInfos(f, arch_x86_64)
                  /\ Return(TRUE, "nostats")
                  /\ UNCHANGED <<usage_, swap_offsets_, rm, widx>>
             ELSE IF ~fd_ok
             THEN /\ maps_' = << >>
                  /\ Return(FALSE, "pagemap")
                  /\ UNCHANGED <<usage_, swap_offsets_, rm, widx>>
             ELSE /\ maps_' = SelectInfos(f, arch_x86_64)
                  /\ rm' = [get_wss |-> get_wss_, use_pageidle |-> use_pageidle,
                            update_mem_usage |-> update_mem_usage]
                  /\ widx' = 1
                  /\ Goto("getusage")
                  /\ UNCHANGED <<usage_, swap_offsets_>>

\* the accessor is refused on an object of the other kind
Refused ==
    /\ Return(TRUE, "invalid")
    /\ UNCHANGED <<objVars, rm, widx, maps_reads>>

CallRest ==
    /\ walked' = << >>
    /\ UNCHANGED nswapped
    /\ UNCHANGED <<scanVars, cbVars, ctorVars, otherVars, toolVars, argVars, argVma, use_kb, w, wp,
                   usage_before, last_page, pagemap_reads>>

Call_Maps ==
    /\ BeginCall("Maps")
    /\ ReadMaps(FALSE, TRUE, TRUE)
    /\ CallRest

Call_MapsWithPageIdle ==
    /\ BeginCall("MapsWithPageIdle")
    /\ ReadMaps(TRUE, TRUE, TRUE)
    /\ CallRest

Call_MapsWithoutUsageStats ==
    /\ BeginCall("MapsWithoutUsageStats")
    /\ ReadMaps(FALSE, FALSE, TRUE)
    /\ CallRest

Call_Usage ==
    /\ BeginCall("Usage")
    /\ IF get_wss_ THEN Refused ELSE ReadMaps(FALSE, TRUE, TRUE)
    /\ CallRest

Call_Wss ==
    /\ BeginCall("Wss")
    /\ IF ~get_wss_ THEN Refused ELSE ReadMaps(FALSE, TRUE, TRUE)
    /\ CallRest

Call_SwapOffsets ==
    /\ BeginCall("SwapOffsets")
    /\ IF get_wss_ THEN Refused ELSE ReadMaps(FALSE, TRUE, FALSE)
    /\ CallRest

(***************************************************************************)
(* ProcMemInfo::GetUsageStats: the loop over maps_, one ReadVmaStats per   *)
(* VMA, and what ReadMaps does with its answer                             *)
(***************************************************************************)
\* the walk c of maps_[widx] has begun, gone one page further, or ended
GetUsageStatsStep(c) ==
    /\ w' = IF c.st = "run" THEN c ELSE NoWalk
    /\ swap_offsets_' = c.swaps
    /\ CASE c.st = "run" ->
              /\ maps_' = [maps_ EXCEPT ![widx].usage = c.usage]
              /\ Goto("walk")
              /\ UNCHANGED <<usage_, widx>>
         [] c.st = "ok" ->
              /\ maps_' = [maps_ EXCEPT ![widx].usage = c.usage]
              /\ usage_' = add_mem_usage(usage_, c.usage)
              /\ widx' = widx + 1
              /\ Goto("getusage")
         [] c.st = "fail" ->
              /\ maps_' = << >>
              /\ Return(FALSE, c.err)
              /\ UNCHANGED <<usage_, widx>>

\* the next VMA of the loop, or the loop's end
GUS_Next ==
    /\ pc = "getusage"
    /\ IF widx > Len(maps_)
       THEN /\ Return(TRUE, "done")
            /\ UNCHANGED <<objVars, widx, w, wp, walked, pagemap_reads>>
       ELSE \E init_ok \in BOOLEAN :
              LET v == maps_[widx]
                  p == WalkParams(v, rm.get_wss, rm.use_pageidle, rm.update_mem_usage, TRUE, pgflags_, pgflags_mask_)
              IN  /\ wp' = p
                  /\ pagemap_reads' = << >>
                  /\ walked' = Append(walked, v.name)
                  /\ GetUsageStatsStep(WalkBegin(v.usage, swap_offsets_, p, init_ok))
    /\ UNCHANGED <<ncalls, op, scanVars, cbVars, ctorVars, otherVars, toolVars, argVars, rm, argVma,
                   use_kb, usage_before, last_page, passVars>>

(***************************************************************************)
(* ProcMemInfo::FillInVmaStats(vma, use_kb)                                *)
(***************************************************************************)
\* the walk c of the caller's Vma v has begun, gone one page further, or ended
FillInVmaStatsStep(v, kb, c) ==
    /\ w' = IF c.st = "run" THEN c ELSE NoWalk
    /\ swap_offsets_' = c.swaps
    /\ UNCHANGED <<maps_, usage_>>
    /\ CASE c.st = "run" ->
              /\ argVma' = [v EXCEPT !.usage = c.usage]
              /\ Goto("walk")
         [] c.st = "ok" ->
              /\ argVma' = [v EXCEPT !.usage =
                               IF kb THEN c.usage
                               ELSE convert_usage_kb_to_b(c.usage)]
              /\ Return(TRUE, "done")
         [] c.st = "fail" ->
              /\ argVma' = [v EXCEPT !.usage = c.usage]
              /\ Return(FALSE, c.err)

\* the Vmas a caller hands to FillInVmaStats: fresh from a maps line (of one
\* page, or of more pages than a batch), one without pages, or one of Maps()
\* whose usage is filled in already
ArgVmas ==
    {VmaFromMapInfo(EmptyVma, m) : m \in MapInfos}
    \cup {EmptyVma}
    \cup {maps_[i] : i \in 1..Len(maps_)}

Call_FillInVmaStats ==
    /\ pc = "idle"
    /\ ncalls < MaxFills
    /\ ncalls' = ncalls + 1
    /\ op' = "FillInVmaStats"
    /\ \E v \in ArgVmas, kb \in BOOLEAN, fd_ok \in BOOLEAN :
          /\ use_kb' = kb
          /\ usage_before' = v.usage
          /\ pagemap_reads' = << >>
          /\ walked' = IF fd_ok THEN <<v.name>> ELSE << >>
          /\ IF ~fd_ok
             THEN /\ argVma' = v
                  /\ Return(FALSE, "pagemap")
                  /\ UNCHANGED <<objVars, w, wp>>
             ELSE LET p == WalkParams(v, get_wss_, FALSE, TRUE, TRUE, pgflags_, pgflags_mask_)
                  IN  /\ wp' = p
                      /\ FillInVmaStatsStep(v, kb, WalkBegin(v.usage, swap_offsets_, p, TRUE))
    /\ UNCHANGED <<scanVars, cbVars, ctorVars, otherVars, toolVars, argVars, rm, widx,
                   last_page, passVars>>

(***************************************************************************)
(* ReadVmaStats, one iteration of its loop                                 *)
(***************************************************************************)
WalkPage ==
    /\ pc = "walk"
    /\ \E o \in IF op = "FillInVmaStats" THEN PageObs(wp.use_pageidle)
                                        ELSE PassObs :
          LET c == ReadVmaStatsPage(w, wp, o)
          IN  /\ last_page' = PageTested(w, wp, o, c)
              /\ pagemap_reads' = pagemap_reads \o Pread(w, wp)
              /\ nswapped' = nswapped + (IF IsSwappedEntry(w, o) THEN 1 ELSE 0)
              /\ IF op = "FillInVmaStats"
                 THEN /\ FillInVmaStatsStep(argVma, use_kb, c)
                      /\ UNCHANGED widx
                 ELSE /\ GetUsageStatsStep(c)
                      /\ UNCHANGED argVma
    /\ UNCHANGED <<ncalls, op, scanVars, obsVars, ctorVars, otherVars, toolVars, argVars, rm, use_kb, wp, usage_before, pass_start, maps_reads>>

(***************************************************************************)
(* ExtractAndroidHeapStatsFromFile(smaps_path, stats, foundSwapPss)        *)
(* ForEachVmaFromFile calls vma_scan once for every VMA of the file, in    *)
(* the order of the file (FE_HeaderLine, FE_Eof above); vma_scan always    *)
(* returns true, so that the scan ends at the end of the file or at a line *)
(* that cannot be parsed.                                                  *)
(***************************************************************************)
\* the caller hands over a zeroed table
Call_ExtractAndroidHeapStatsFromFile ==
    /\ pc = "idle"
    /\ ncalls < MaxExtracts
    /\ ncalls' = ncalls + 1
    /\ op' = "ExtractAndroidHeapStatsFromFile"
    /\ pc' = "heapscan"
    /\ reason' = "none"
    /\ stats' = ZeroStats
    /\ foundSwapPss' = FALSE
    /\ prev_end' = 0
    /\ prev_heap' = "HEAP_UNKNOWN"
    /\ scanned' = 0
    /\ last_scan' = NoScan
    /\ scan_log' = << >>
    /\ UNCHANGED <<result, memVars, pageVars, rankVars, listenerVars, rollupVars, probeVars>>

\* one call of the lambda
vma_scan(v) ==
    LET name == StripDeleted(v.name)
        h == which_heap_of(name, v.start, prev_end, prev_heap)
        swapable_pss == swapable_pss_of(h.is_swappable, v.usage)
    IN  /\ prev_end' = v.end
        /\ prev_heap' = h.which_heap
        /\ foundSwapPss' = (foundSwapPss \/ v.usage.swap_pss > 0)
        /\ stats' = AddToStats(stats, h, v.usage, swapable_pss)
        /\ last_scan' = [name |-> v.name, start |-> v.start, usage |-> v.usage,
                         which_heap |-> h.which_heap, sub_heap |-> h.sub_heap,
                         is_swappable |-> h.is_swappable,
                         swapable_pss |-> swapable_pss,
                         prev_end |-> prev_end, prev_heap |-> prev_heap]
        /\ scan_log' = Append(scan_log, [name |-> v.name, start |-> v.start,
                                         end |-> v.end, which_heap |-> h.which_heap])

\* the parser has read a VMA of the file and hands it to vma_scan
HS_Vma(inputs) ==
    /\ pc = "heapscan"
    /\ scanned < MaxScan
    /\ \E v \in inputs : vma_scan(v)
    /\ scanned' = scanned + 1
    /\ UNCHANGED <<ncalls, op, pc, result, reason, memVars, pageVars, rankVars, listenerVars, rollupVars, probeVars>>

\* the end of the file, or a line that is neither a header nor a field
HS_Return ==
    /\ pc = "heapscan"
    /\ \E ok \in BOOLEAN :
          /\ result' = ok
          /\ reason' = IF ok THEN "eof" ELSE "parse"
    /\ pc' = "idle"
    /\ UNCHANGED <<ncalls, op, memVars, pageVars, rankVars, listenerVars, heapVars, rollupVars, probeVars>>

(***************************************************************************)
(* SmapsOrRollupFromFile(path, stats), SmapsOrRollupPssFromFile(path, pss) *)
(***************************************************************************)
\* most lines in a file given to the two functions
MaxRollupLines == 2
\* most calls of the two functions
MaxRollups == 1

\* a line that begins with a key and has no number after it
GarbledLine(k) == [kind |-> "garbled", info |-> NoInfo, key |-> k, val |-> 0]

\* strtoull(line + strlen(key), nullptr, 10): the number written after the
\* key, 0 when there is none
strtoull(line) == IF line.kind = "stat" THEN line.val ELSE 0

\* strncmp(line, key, strlen(key)) == 0
BeginsWith(line, key) == line.kind \in {"stat", "garbled"} /\ line.key = key

\* sscanf(line, "Pss: %" SCNu64 " kB", &v) == 1
sscanf_Pss(line) == line.kind = "stat" /\ line.key = "Pss:"

\* the switch of SmapsOrRollupFromFile on one line
RollupLine_PssOnly(st, line) == IF BeginsWith(line, "Pss:") THEN [st EXCEPT !.pss = @ + strtoull(line)] ELSE st

RollupLine(st, line) ==
    IF BeginsWith(line, "Pss:") THEN [st EXCEPT !.pss = @ + strtoull(line)]
    ELSE IF BeginsWith(line, "Private_Clean:")
         THEN [st EXCEPT !.private_clean = @ + strtoull(line), !.uss = @ + strtoull(line)]
    ELSE IF BeginsWith(line, "Private_Dirty:")
         THEN [st EXCEPT !.private_dirty = @ + strtoull(line), !.uss = @ + strtoull(line)]
    ELSE IF BeginsWith(line, "Rss:") THEN [st EXCEPT !.rss = @ + strtoull(line)]
    ELSE IF BeginsWith(line, "SwapPss:") THEN [st EXCEPT !.swap_pss = @ + strtoull(line)]
    ELSE st

\* the keys that are summed, and one that is not
RollupKeys == {"Pss:", "Private_Clean:", "Private_Dirty:", "Rss:", "SwapPss:", "Swap:"}

\* the lines of a smaps or smaps_rollup file, and lines of neither
RollupLines ==
    {StatLine(k, v) : k \in RollupKeys, v \in InputVals}
    \cup {GarbledLine("Pss:"), GarbledLine("Rss:"), BadLine}
    \cup {HeaderLine(m) : m \in {MapInfo(1, 2, LibName, 5, 11)}}

\* what the caller's MemUsage and uint64_t hold before the call
StaleUsage == [ZeroUsage EXCEPT !.pss = 1, !.vss = 1]

InRollup == op \in {"SmapsOrRollupFromFile", "SmapsOrRollupPssFromFile"}

Call_SmapsOrRollupFromFile ==
    /\ pc = "idle"
    /\ ncalls < MaxRollups
    /\ ncalls' = ncalls + 1
    /\ op' = "SmapsOrRollupFromFile"
    /\ rollup_lines' = << >>
    /\ \E before \in {ZeroUsage, StaleUsage}, opened \in BOOLEAN :
          IF opened
          THEN /\ Goto("rollup")
               /\ rollup_stats' = ZeroUsage
          ELSE /\ Return(FALSE, "open")
               /\ rollup_stats' = before
    /\ rollup_pss' = 0
    /\ UNCHANGED <<memVars, pageVars, rankVars, listenerVars, heapVars, probeVars>>

Call_SmapsOrRollupPssFromFile ==
    /\ pc = "idle"
    /\ ncalls < MaxRollups
    /\ ncalls' = ncalls + 1
    /\ op' = "SmapsOrRollupPssFromFile"
    /\ rollup_lines' = << >>
    /\ \E before \in {0, 1}, opened \in BOOLEAN :
          IF opened
          THEN /\ Goto("rollup")
               /\ rollup_pss' = 0
          ELSE /\ Return(FALSE, "open")
               /\ rollup_pss' = before
    /\ rollup_stats' = ZeroUsage
    /\ UNCHANGED <<memVars, pageVars, rankVars, listenerVars, heapVars, probeVars>>

\* getline() > 0: one more line
RU_Line ==
    /\ pc = "rollup"
    /\ InRollup
    /\ Len(rollup_lines) < MaxRollupLines
    /\ \E line \in RollupLines :
          /\ rollup_lines' = Append(rollup_lines, line)
          /\ IF op = "SmapsOrRollupFromFile"
             THEN /\ rollup_stats' = RollupLine(rollup_stats, line)
                  /\ UNCHANGED rollup_pss
             ELSE /\ rollup_pss' = IF sscanf_Pss(line) THEN rollup_pss + line.val
                                                       ELSE rollup_pss
                  /\ UNCHANGED rollup_stats
    /\ UNCHANGED <<ncalls, op, pc, result, reason, memVars, pageVars, rankVars, listenerVars, heapVars, probeVars>>

\* getline() <= 0: the end of the file
RU_Eof ==
    /\ pc = "rollup"
    /\ InRollup
    /\ Return(TRUE, "eof")
    /\ UNCHANGED <<ncalls, op, memVars, pageVars, rankVars, listenerVars, heapVars, rollupVars, probeVars>>

(***************************************************************************)
(* IsSmapsRollupSupported(), called by the threads of one process.  The    *)
(* load and the stores of g_rollup_support are atomic (relaxed); nothing   *)
(* orders one thread's load, access() and store with those of another.     *)
(***************************************************************************)
\* rollup_support = g_rollup_support.load(); the early return of a call that
\* finds the answer cached
IS_Load(t) ==
    /\ t_pc[t] = "idle"
    /\ t_calls[t] < MaxProbeCalls
    /\ t_calls' = [t_calls EXCEPT ![t] = @ + 1]
    /\ IF g_rollup_support # "UNTRIED"
       THEN /\ answers' = answers \cup {g_rollup_support = "SUPPORTED"}
            /\ UNCHANGED t_pc
       ELSE /\ t_pc' = [t_pc EXCEPT ![t] = "access"]
            /\ UNCHANGED answers
    /\ UNCHANGED <<g_rollup_support, kernel_has_rollup, t_access, probes>>
    /\ UNCHANGED <<ncalls, op, pc, result, reason, memVars, pageVars, rankVars, listenerVars, heapVars, rollupVars>>

\* access("/proc/self/smaps_rollup", F_OK | R_OK)
IS_Access(t) ==
    /\ t_pc[t] = "access"
    /\ t_access' = [t_access EXCEPT ![t] = kernel_has_rollup]
    /\ probes' = probes + 1
    /\ t_pc' = [t_pc EXCEPT ![t] = "store"]
    /\ UNCHANGED <<g_rollup_support, kernel_has_rollup, t_calls, answers>>
    /\ UNCHANGED <<ncalls, op, pc, result, reason, memVars, pageVars, rankVars, listenerVars, heapVars, rollupVars>>

\* g_rollup_support.store(...) and the return that follows it
IS_Store(t) ==
    /\ t_pc[t] = "store"
    /\ g_rollup_support' = IF t_access[t] THEN "SUPPORTED" ELSE "UNSUPPORTED"
    /\ answers' = answers \cup {t_access[t]}
    /\ t_pc' = [t_pc EXCEPT ![t] = "idle"]
    /\ UNCHANGED <<kernel_has_rollup, t_access, t_calls, probes>>
    /\ UNCHANGED <<ncalls, op, pc, result, reason, memVars, pageVars, rankVars, listenerVars, heapVars, rollupVars>>

(***************************************************************************)
(* Specifications                                                          *)
(***************************************************************************)
\* the parser with a caller's callback
Next ==
    \/ Call_ForEachVmaFromFile
    \/ FE_StatLine
    \/ FE_HeaderLine
    \/ FE_Eof
    \/ Call_ForEachVmaFromMaps
    \/ FM_Line
    \/ FM_Eof

Spec == Init /\ [][Next]_vars

\* ProcMemInfo::Smaps and the parser it drives
\* showmap -m: one scan of the smaps file in the life of the process
NextShowmap ==
    \/ Call_showmap
    \/ FE_StatLine
    \/ FE_HeaderLine
    \/ FE_Eof

SpecShowmap == Init /\ [][NextShowmap]_vars

\* showmap without -m
NextShowmapVmas ==
    \/ Call_showmap_collect_vma
    \/ FE_StatLine
    \/ FE_HeaderLine
    \/ FE_Eof

SpecShowmapVmas == Init /\ [][NextShowmapVmas]_vars

NextSmaps ==
    \/ Call_Smaps
    \/ FE_StatLine
    \/ FE_HeaderLine
    \/ FE_Eof

SpecSmaps == InitSmaps /\ [][NextSmaps]_vars

\* the accessors of ProcMemInfo that walk the page tables
NextUsage ==
    \/ Call_Maps
    \/ Call_MapsWithPageIdle
    \/ Call_MapsWithoutUsageStats
    \/ Call_Usage
    \/ Call_Wss
    \/ Call_SwapOffsets
    \/ GUS_Next
    \/ WalkPage

SpecUsage == InitUsage /\ [][NextUsage]_vars

\* FillInVmaStats on Vmas of the caller
NextFill ==
    \/ Call_FillInVmaStats
    \/ WalkPage

SpecFill == InitFill /\ [][NextFill]_vars

\* the heap classifier on every kind of name, and on usages of every kind
NextClassify ==
    \/ Call_ExtractAndroidHeapStatsFromFile
    \/ HS_Vma(ClassifyVmas)
    \/ HS_Return

SpecClassify == Init /\ [][NextClassify]_vars

NextHeapStats ==
    \/ Call_ExtractAndroidHeapStatsFromFile
    \/ HS_Vma(StatsVmas)
    \/ HS_Return

SpecHeapStats == Init /\ [][NextHeapStats]_vars

\* the readers of smaps_rollup
NextRollup ==
    \/ Call_SmapsOrRollupFromFile
    \/ Call_SmapsOrRollupPssFromFile
    \/ RU_Line
    \/ RU_Eof

SpecRollup == Init /\ [][NextRollup]_vars

\* a process whose threads ask whether smaps_rollup is there
InitProbe ==
    /\ InitState
    /\ DefaultCtor
    /\ arch_x86_64 = FALSE
    /\ kernel_has_rollup \in BOOLEAN

NextProbe ==
    \/ \E t \in Threads : IS_Load(t)
    \/ \E t \in Threads : IS_Access(t)
    \/ \E t \in Threads : IS_Store(t)

SpecProbe == InitProbe /\ [][NextProbe]_vars

(***************************************************************************)
(* MemEventListener (libmemevents/memevents.cpp)                           *)
(* The listener's fields, the descriptors the process has open and the     *)
(* interest list of the listener's epoll instance are the state.  A        *)
(* descriptor is the lowest number that is not open; closing a descriptor  *)
(* takes it out of the interest list, and closing the epoll descriptor     *)
(* ends the epoll instance.  Every system call can fail.                   *)
(***************************************************************************)
Listener ==
    [mEpfd |-> mEpfd, mFds |-> mFds, mPendingEvents |-> mPendingEvents,
     fds |-> open_fds, epoll |-> epoll_set, opened |-> nopened]

\* the descriptor that the next successful open or epoll_create returns
NewFd(fds) ==
    CHOOSE n \in FirstFd..(FirstFd + Cardinality(fds)) :
        /\ n \notin fds
        /\ \A m \in FirstFd..(n - 1) : m \in fds

OpenFd(s) ==
    [s EXCEPT !.fds = @ \cup {NewFd(s.fds)}, !.opened = @ + 1]

\* line 85, were no event type ever found registered
IsRegistered_Never(fds, event_type) == FALSE

\* line 85: mFds[event_type] != -1
IsRegistered(fds, event_type) == fds[event_type] # -1

\* lines 181-187
areAllFdsClosed(fds) == \A i \in MemEvents : ~(fds[i] > -1)

\* the listener after a call, the value returned and the return taken
Ret(s, value, why) == [s |-> s, ret |-> value, why |-> why]

\* lines 80-131
registerEvent(s, event_type, create_ok, open_ok, add_ok) ==
    IF ~isValidEventType(event_type) THEN Ret(s, FALSE, "invalid")
    ELSE IF IsRegistered(s.mFds, event_type) THEN Ret(s, TRUE, "registered")
    ELSE LET s1 == IF s.mEpfd < 0 /\ create_ok
                   THEN [OpenFd(s) EXCEPT !.mEpfd = NewFd(s.fds)]
                   ELSE s
         IN  IF s1.mEpfd < 0 THEN Ret(s1, FALSE, "epoll_create")
             ELSE IF event_type # OOM_KILL THEN Ret(s1, FALSE, "default")
             ELSE IF ~open_ok THEN Ret(s1, FALSE, "open")
             ELSE LET fd == NewFd(s1.fds)
                      s2 == OpenFd(s1)
                  IN  IF ~add_ok
                      THEN Ret([s2 EXCEPT !.fds = @ \ {fd}], FALSE, "epoll_ctl")
                      ELSE Ret([s2 EXCEPT !.epoll = @ \cup {fd},
                                          !.mFds[event_type] = fd], TRUE, "done")

\* lines 164-199
deregisterEvent(s, event_type, del_ok) ==
    IF ~isValidEventType(event_type) THEN Ret(s, FALSE, "invalid")
    ELSE LET fd == s.mFds[event_type]
         IN  IF fd = -1 THEN Ret(s, TRUE, "unregistered")
             ELSE IF ~del_ok THEN Ret(s, FALSE, "epoll_ctl")
             ELSE LET s1 == [s EXCEPT !.fds = @ \ {fd},
                                      !.epoll = @ \ {fd},
                                      !.mFds[event_type] = -1]
                  IN  IF areAllFdsClosed(s1.mFds)
                      THEN Ret([s1 EXCEPT !.fds = @ \ {s1.mEpfd},
                                          !.epoll = {},
                                          !.mEpfd = -1], TRUE, "last")
                      ELSE Ret(s1, TRUE, "done")

\* lines 203-205: the loop from event type i on, del_ok[i] being the outcome
\* of the epoll_ctl made for i
RECURSIVE deregisterFrom(_, _, _)
deregisterFrom(s, i, del_ok) ==
    IF i >= NR_MEM_EVENTS THEN s
    ELSE deregisterFrom(IF s.mFds[i] # -1
                        THEN deregisterEvent(s, i, del_ok[i]).s
                        ELSE s,
                        i + 1, del_ok)

\* lines 201-210
deregisterAllEvents(s, del_ok) ==
    IF s.mEpfd < 0 THEN s ELSE deregisterFrom(s, 0, del_ok)

\* the event types of a set in the order of their values
RECURSIVE InOrder(_)
InOrder(S) ==
    IF S = {} THEN << >>
    ELSE LET m == CHOOSE x \in S : \A y \in S : x <= y
         IN  <<m>> \o InOrder(S \ {m})

\* the event types whose descriptors are in the interest list
Watched(s) == {e \in MemEvents : s.mFds[e] \in s.epoll}

SetListener(s) ==
    /\ mEpfd' = s.mEpfd
    /\ mFds' = s.mFds
    /\ mPendingEvents' = s.mPendingEvents
    /\ open_fds' = s.fds
    /\ epoll_set' = s.epoll
    /\ nopened' = s.opened

ListenerCall(name) ==
    /\ pc = "idle"
    /\ ncalls < MaxListenerCalls
    /\ ncalls' = ncalls + 1
    /\ op' = name

Call_registerEvent ==
    /\ ListenerCall("registerEvent")
    /\ \E e \in EventArgs, create_ok \in BOOLEAN, open_ok \in BOOLEAN, add_ok \in BOOLEAN :
          LET r == registerEvent(Listener, e, create_ok, open_ok, add_ok)
          IN  /\ arg_event' = e
              /\ SetListener(r.s)
              /\ Return(r.ret, r.why)
    /\ UNCHANGED <<ret_event, op2, memVars, pageVars, rankVars,
                   heapVars, rollupVars, probeVars>>

Call_deregisterEvent ==
    /\ ListenerCall("deregisterEvent")
    /\ \E e \in EventArgs, del_ok \in BOOLEAN :
          LET r == deregisterEvent(Listener, e, del_ok)
          IN  /\ arg_event' = e
              /\ SetListener(r.s)
              /\ Return(r.ret, r.why)
    /\ UNCHANGED <<ret_event, op2, memVars, pageVars, rankVars,
                   heapVars, rollupVars, probeVars>>

Call_deregisterAllEvents ==
    /\ ListenerCall("deregisterAllEvents")
    /\ \E del_ok \in [MemEvents -> BOOLEAN] :
          SetListener(deregisterAllEvents(Listener, del_ok))
    /\ pc' = "idle"
    /\ reason' = "deregisterAllEvents"
    /\ UNCHANGED <<result, arg_event, ret_event, op2, memVars, pageVars, rankVars,
                   heapVars, rollupVars, probeVars>>

\* lines 159-161: the front of mPendingEvents is returned
PopEvent(pending) ==
    /\ ret_event' = Head(pending)
    /\ mPendingEvents' = Tail(pending)
    /\ Return(TRUE, "event")

\* lines 133-143: listen() up to the call of epoll_wait
Call_listen ==
    /\ ListenerCall("listen")
    /\ IF mEpfd < 0
       THEN /\ ret_event' = ERROR
            /\ Return(FALSE, "epfd")
            /\ UNCHANGED mPendingEvents
       ELSE IF mPendingEvents # << >>
       THEN PopEvent(mPendingEvents)
       ELSE /\ Goto("epoll_wait")
            /\ UNCHANGED <<ret_event, mPendingEvents>>
    /\ UNCHANGED <<arg_event, mEpfd, mFds, open_fds, epoll_set, nopened,
                   op2, memVars, pageVars, rankVars,
                   heapVars, rollupVars, probeVars>>

\* lines 145-161: epoll_wait returns, with an error or with events of
\* watched descriptors (ready), those of pri having EPOLLPRI set.  With no
\* EPOLLPRI among them front() and pop_front() are called on an empty
\* deque, which is undefined: any value may be returned.
L_EpollWait ==
    /\ pc = "epoll_wait"
    /\ \/ /\ ret_event' = ERROR
          /\ Return(FALSE, "epoll_wait")
          /\ UNCHANGED mPendingEvents
       \/ \E ready \in SUBSET Watched(Listener) \ {{}} :
            \E pri \in SUBSET ready :
               IF pri # {}
               THEN PopEvent(mPendingEvents \o InOrder(pri))
               ELSE \E e \in EventArgs :
                       /\ ret_event' = e
                       /\ Return(e # ERROR, "undefined")
                       /\ UNCHANGED mPendingEvents
    /\ UNCHANGED <<ncalls, op, arg_event, mEpfd, mFds, open_fds, epoll_set,
                   nopened, op2, memVars, pageVars, rankVars,
                   heapVars, rollupVars, probeVars>>

NextListener ==
    \/ Call_registerEvent
    \/ Call_deregisterEvent
    \/ Call_deregisterAllEvents
    \/ Call_listen
    \/ L_EpollWait

SpecListener == Init /\ [][NextListener]_vars

(***************************************************************************)
(* MemEventListener with a second thread: while listen() is in epoll_wait  *)
(* another thread calls deregisterEvent or deregisterAllEvents on the same *)
(* object.  The fields carry no lock; the listening thread touches none of *)
(* them while it is in epoll_wait.                                         *)
(***************************************************************************)
\* what op2 keeps of the call: its name and whether it took the last
\* registered event away
SecondCall(name, before, after) ==
    [call |-> name,
     last |-> /\ \E e \in MemEvents : before.mFds[e] # -1
              /\ \A e \in MemEvents : after.mFds[e] = -1]

T2_deregisterEvent ==
    /\ pc = "epoll_wait"
    /\ ncalls < MaxListenerCalls
    /\ ncalls' = ncalls + 1
    /\ \E e \in EventArgs, del_ok \in BOOLEAN :
          LET r == deregisterEvent(Listener, e, del_ok)
          IN  /\ arg_event' = e
              /\ SetListener(r.s)
              /\ op2' = SecondCall("deregisterEvent", Listener, r.s)
    /\ UNCHANGED <<op, pc, result, reason, ret_event, memVars, pageVars, rankVars,
                   heapVars, rollupVars, probeVars>>

T2_deregisterAllEvents ==
    /\ pc = "epoll_wait"
    /\ ncalls < MaxListenerCalls
    /\ ncalls' = ncalls + 1
    /\ \E del_ok \in [MemEvents -> BOOLEAN] :
          LET after == deregisterAllEvents(Listener, del_ok)
          IN  /\ SetListener(after)
              /\ op2' = SecondCall("deregisterAllEvents", Listener, after)
    /\ UNCHANGED <<op, pc, result, reason, arg_event, ret_event, memVars, pageVars, rankVars,
                   heapVars, rollupVars, probeVars>>

NextListenerThreads ==
    \/ NextListener
    \/ T2_deregisterEvent
    \/ T2_deregisterAllEvents

\* epoll_wait(mEpfd, events, NR_MEM_EVENTS, -1) has no timeout: it returns
\* with events of watched descriptors, which are taken to come in the end
\* as long as a descriptor is watched, or with an error, which is not
EventWakesListen == L_EpollWait /\ reason' # "epoll_wait"

SpecListenerThreads ==
    Init /\ [][NextListenerThreads]_vars /\ WF_vars(EventWakesListen)

(***************************************************************************)
(* ReadVmaStats, one iteration of its loop taken alone, on every kind of   *)
(* page and under every combination of the arguments                       *)
(***************************************************************************)
InitPage ==
    /\ InitCommon
    /\ kernel_has_rollup = TRUE
    /\ DefaultCtor
    /\ arch_x86_64 = FALSE
    /\ pg_in \in {i \in PageInputs : i.o.idle = 0 \/ i.p.use_pageidle}
    /\ rank_in = NoRankInput

RVS_Page ==
    /\ pc = "idle"
    /\ op = "none"
    /\ op' = "ReadVmaStats"
    /\ pg_out' = ReadVmaStatsPage(pg_in.c, pg_in.p, pg_in.o)
    /\ UNCHANGED <<ncalls, pc, result, reason, pg_in, memVars, rankVars, listenerVars,
                   heapVars, rollupVars, probeVars>>

NextPage == RVS_Page

SpecPage == InitPage /\ [][NextPage]_vars

(***************************************************************************)
(* procrank: the pass that builds the records and counts the references    *)
(* to the swap slots, then the pass that computes the shares               *)
(***************************************************************************)
InitProcrank ==
    /\ InitCommon
    /\ kernel_has_rollup = TRUE
    /\ DefaultCtor
    /\ arch_x86_64 = FALSE
    /\ pg_in = NoPageInput
    /\ rank_in \in RankInputs

\* !params->show_wss && params->swap_enabled
CountsSwap == ~rank_in.show_wss /\ rank_in.swap_enabled

\* procrank() up to the call of populate_procrank_procs
Call_procrank ==
    /\ pc = "idle"
    /\ op = "none"
    /\ op' = "procrank"
    /\ ncalls' = ncalls + 1
    /\ IF ~rank_in.meminfo_ok
       THEN /\ Return(FALSE, "meminfo")
            /\ UNCHANGED <<swap_offset_array, procs, rank_idx>>
       ELSE /\ swap_offset_array' = NewSwapOffsetArray(rank_in.swap_enabled)
            /\ procs' = << >>
            /\ rank_idx' = 1
            /\ Goto("populate")
    /\ UNCHANGED <<rank_in, memVars, pageVars, listenerVars, heapVars, rollupVars, probeVars>>

\* populate_procrank_procs: one pid of the loop; after the last one procrank
\* returns for want of records, or sorts them and goes on to print
PR_Populate ==
    /\ pc = "populate"
    /\ IF rank_idx > Len(rank_in.pids)
       THEN IF procs = << >>
            THEN /\ Return(TRUE, "empty")
                 /\ UNCHANGED <<swap_offset_array, procs, rank_idx>>
            ELSE /\ procs' \in Sorted(procs)
                 /\ rank_idx' = 1
                 /\ Goto("print")
                 /\ UNCHANGED swap_offset_array
       ELSE LET proc == rank_in.pids[rank_idx]
                c == count_swap_offsets(proc.swap_offsets_, swap_offset_array)
            IN  IF ~proc.valid \/ proc.vss = 0
                THEN /\ rank_idx' = rank_idx + 1
                     /\ Goto("populate")
                     /\ UNCHANGED <<swap_offset_array, procs>>
                ELSE IF CountsSwap /\ ~c.ok
                THEN /\ swap_offset_array' = c.arr
                     /\ Return(FALSE, "count_swap_offsets")
                     /\ UNCHANGED <<procs, rank_idx>>
                ELSE /\ swap_offset_array' = IF CountsSwap THEN c.arr ELSE swap_offset_array
                     /\ procs' = Append(procs, Ranked(proc, CountsSwap))
                     /\ rank_idx' = rank_idx + 1
                     /\ Goto("populate")
    /\ UNCHANGED <<ncalls, op, rank_in, memVars, pageVars, listenerVars, heapVars, rollupVars, probeVars>>

\* print_procrank_processes: one record of the loop; a division by zero or
\* a read past the table leaves any value in the record
PR_Print ==
    /\ pc = "print"
    /\ IF rank_idx > Len(procs)
       THEN /\ Return(TRUE, "printed")
            /\ UNCHANGED <<procs, rank_idx>>
       ELSE /\ rank_idx' = rank_idx + 1
            /\ Goto("print")
            /\ IF CountsSwap
               THEN LET offs == procs[rank_idx].swap_offsets_
                        r == CalculateSwap(offs, swap_offset_array)
                    IN  IF CalculateSwapDefined(offs, swap_offset_array)
                        THEN procs' = [procs EXCEPT ![rank_idx].calculated = TRUE,
                                           ![rank_idx].proportional_swap_ = r.proportional_swap_,
                                           ![rank_idx].unique_swap_ = r.unique_swap_,
                                           ![rank_idx].divisors = r.divisors]
                        ELSE \E any \in {0, getpagesize} :
                               procs' = [procs EXCEPT ![rank_idx].calculated = TRUE,
                                           ![rank_idx].proportional_swap_ = any,
                                           ![rank_idx].unique_swap_ = any,
                                           ![rank_idx].divisors =
                                               DivisorsOf(offs, swap_offset_array)]
               ELSE UNCHANGED procs
    /\ UNCHANGED <<ncalls, op, rank_in, swap_offset_array, memVars, pageVars, listenerVars,
                   heapVars, rollupVars, probeVars>>

NextProcrank ==
    \/ Call_procrank
    \/ PR_Populate
    \/ PR_Print

SpecProcrank == InitProcrank /\ [][NextProcrank]_vars

(***************************************************************************)
(* Claims on the VMA stream parser                                         *)
(***************************************************************************)
InSmapsScan == op = "ForEachVmaFromFile" /\ read_smaps_fields

FileScanReturned == op = "ForEachVmaFromFile" /\ pc = "idle"

\* C1: every VMA that ForEachVmaFromFile passes to the callback in smaps
\* mode has usage.uss = usage.private_clean + usage.private_dirty, whatever
\* stat lines followed its header and whatever VMAs came before it.
C1_UssIsPrivateSum ==
    InSmapsScan =>
        lastCb.usage.uss =
            lastCb.usage.private_clean + lastCb.usage.private_dirty

\* C2: when every header line is well formed (and no callback stopped the
\* scan), the callback was made exactly once per header line, in the order
\* of the file, the last VMA included when the stream ends while its stat
\* lines are collected; while the scan runs, the VMAs delivered are the
\* headers read so far, in order, but for at most the pending one.
IsPrefix(a, b) == Len(a) <= Len(b) /\ SubSeq(b, 1, Len(a)) = a

C2_OneCallbackPerHeaderInOrder ==
    op = "ForEachVmaFromFile" =>
        /\ IsPrefix(delivered, headers)
        /\ Len(headers) - Len(delivered) <= 1
        /\ (pc = "idle" /\ reason = "eof") => (result /\ delivered = headers)

C2_Witness ==
    /\ FileScanReturned /\ reason = "eof"
    /\ read_smaps_fields /\ parsing_vma
    /\ Len(headers) = 2 /\ delivered = headers
    /\ lastCb.usage.pss > 0

\* C3: once the callback has returned false, ForEachVmaFromFile makes no
\* further callback (not for a later VMA, not for the flush at the end of
\* the stream) and returns false.
C3_FalseStopsTheScan ==
    op = "ForEachVmaFromFile" =>
        /\ ~cbAfterFalse
        /\ cbFailed => (pc = "idle" /\ result = FALSE /\ reason = "callback")

C3_Witness ==
    /\ FileScanReturned /\ cbFailed
    /\ read_smaps_fields
    /\ Len(delivered) = 1 /\ nlines = 2 /\ nlines < MaxLines

\* C4: in ForEachVmaFromMaps a callback that returns false stops the scan:
\* no later VMA is passed to the callback and the call reports failure.
C4_FromMapsFalseStopsTheScan ==
    op = "ForEachVmaFromMaps" =>
        /\ ~cbAfterFalse
        /\ cbFailed => (pc = "idle" /\ result = FALSE)

\* C5: when a line that must be a VMA header does not parse as one,
\* ForEachVmaFromFile returns false at once: the callbacks made are those
\* of the well-formed headers before that line, and the scan has ended.
C5_MalformedHeaderAborts ==
    (op = "ForEachVmaFromFile" /\ reason = "parse") =>
        /\ pc = "idle"
        /\ result = FALSE
        /\ delivered = headers

C5_Witness ==
    /\ FileScanReturned /\ reason = "parse"
    /\ read_smaps_fields
    /\ Len(delivered) = 1 /\ nlines = 3
    /\ lastCb.usage.rss > 0

(***************************************************************************)
(* The VMAs that are not processed                                         *)
(***************************************************************************)
NoneExcluded(names) ==
    \A i \in 1..Len(names) : names[i] \notin g_excluded_vmas(arch_x86_64)

NamesOf(vmas) == [i \in 1..Len(vmas) |-> vmas[i].name]

WalkRelations(u) ==
    /\ u.rss = u.private_clean + u.private_dirty + u.shared_clean + u.shared_dirty
    /\ u.uss = u.private_clean + u.private_dirty
    /\ u.pss <= u.rss

\* FillInVmaStats is walking, or has walked with success, a Vma whose usage
\* was all zero
InWalkFromZero ==
    /\ op = "FillInVmaStats"
    /\ usage_before = ZeroUsage
    /\ \/ pc = "walk"
       \/ pc = "idle" /\ result

\* C7: while ReadVmaStats walks a VMA whose usage was all zero, after each
\* page and once it has succeeded, in either mode and under either filter,
\* rss = private_clean + private_dirty + shared_clean + shared_dirty,
\* uss = private_clean + private_dirty and pss <= rss
C7_WalkKeepsUsageRelations ==
    InWalkFromZero =>
        /\ WalkRelations(argVma.usage)
        /\ pc = "walk" => WalkRelations(w.usage)

\* a working-set walk under the DIRTY filter has succeeded and has counted a
\* private page and a shared page
C7_Witness ==
    /\ InWalkFromZero
    /\ pc = "idle"
    /\ get_wss_
    /\ pgflags_mask_ = {"DIRTY"}
    /\ argVma.usage.private_dirty > 0
    /\ argVma.usage.shared_dirty > 0
    /\ argVma.usage.pss < argVma.usage.rss

\* C8: FillInVmaStats has failed because a read of the pagemap, of the first
\* batch or of a later one, was short or failed: the usage of the caller's
\* Vma is what it was before the walk
C8_FailedWalkLeavesUsage ==
    (op = "FillInVmaStats" /\ pc = "idle" /\ ~result /\ reason = "pread")
        => argVma.usage = usage_before

(***************************************************************************)
(* Usage collection                                                        *)
(***************************************************************************)
RECURSIVE SumOfUsage(_)
SumOfUsage(vmas) ==
    IF vmas = << >> THEN ZeroUsage
    ELSE [f \in MemUsageFields |-> Head(vmas).usage[f] + SumOfUsage(Tail(vmas))[f]]

InCollection ==
    op \in {"Maps", "MapsWithPageIdle", "Usage", "Wss", "SwapOffsets"}

\* C9: a collection that has failed in the walk of a VMA (pagemap read,
\* PageFlags or PageMapCount) leaves maps_ empty and usage_ and
\* swap_offsets_ as they were when it began; after a collection that has
\* succeeded, failed ones before it or not, usage_ is the field-wise sum of
\* the usage of the VMAs of maps_
C9_FailedPassLeavesNoTrace ==
    (InCollection /\ pc = "idle") =>
        /\ (~result /\ reason \in {"pread", "PageFlags", "PageMapCount"}) =>
              /\ maps_ = << >>
              /\ usage_ = pass_start.usage
              /\ swap_offsets_ = pass_start.swaps
        /\ (result /\ reason = "done") => usage_ = SumOfUsage(maps_)

(***************************************************************************)
(* Merging                                                                 *)
(***************************************************************************)
RECURSIVE SumUnder(_, _, _)
SumUnder(name, f, ms) ==
    IF ms = << >> THEN 0
    ELSE (IF Head(ms).name = name THEN Head(ms).usage[f] ELSE 0)
         + SumUnder(name, f, Tail(ms))

\* C10: every field of the usage that collect_vma_merge_by_names keeps under
\* a name is the sum of that field over the VMAs collected under the name
C10_MergeAddsEveryField ==
    \A name \in DOMAIN g_vmas_name_map :
        \A f \in MemUsageFields :
            g_vmas_name_map[name].vma.usage[f] = SumUnder(name, f, merged)

(***************************************************************************)
(* The heap classifier                                                     *)
(***************************************************************************)
\* a rule of the ordered list: a name matches when it has one of the
\* prefixes (if any is asked for), one of the suffixes (if any) and one of
\* the substrings (if any)
Rule(pre, suf, has, which, sub, swappable) ==
    [pre |-> pre, suf |-> suf, has |-> has,
     heap |-> Heap(which, sub, swappable)]

BootMarks == {kAtBoot, kSlashBoot, kSlashApex}

\* rules 1 to 6, top to bottom, every refinement before what it refines
HeapRules ==
    << Rule({kHeap, kLibcMalloc, kScudo, kGwpAsan}, {}, {}, "HEAP_NATIVE", "HEAP_UNKNOWN", FALSE),
       Rule({kStack, kStackAndTls}, {}, {}, "HEAP_STACK", "HEAP_UNKNOWN", FALSE),
       Rule({}, {kSo}, {}, "HEAP_SO", "HEAP_UNKNOWN", TRUE),
       Rule({}, {kJar}, {}, "HEAP_JAR", "HEAP_UNKNOWN", TRUE),
       Rule({}, {kApk}, {}, "HEAP_APK", "HEAP_UNKNOWN", TRUE),
       Rule({}, {kTtf}, {}, "HEAP_TTF", "HEAP_UNKNOWN", TRUE),
       Rule({}, {kOdex}, {}, "HEAP_DEX", "HEAP_DEX_APP_DEX", TRUE),
       Rule({}, {}, {kDex}, "HEAP_DEX", "HEAP_DEX_APP_DEX", TRUE),
       Rule({}, {kVdex}, BootMarks, "HEAP_DEX", "HEAP_DEX_BOOT_VDEX", TRUE),
       Rule({}, {kVdex}, {}, "HEAP_DEX", "HEAP_DEX_APP_VDEX", TRUE),
       Rule({}, {kOat}, {}, "HEAP_OAT", "HEAP_UNKNOWN", TRUE),
       Rule({}, {kArt, kArtBracket}, BootMarks, "HEAP_ART", "HEAP_ART_BOOT", TRUE),
       Rule({}, {kArt, kArtBracket}, {}, "HEAP_ART", "HEAP_ART_APP", TRUE),
       Rule({kKgsl}, {}, {}, "HEAP_GL_DEV", "HEAP_UNKNOWN", FALSE),
       Rule({kCursorWindow}, {}, {}, "HEAP_CURSOR", "HEAP_UNKNOWN", FALSE),
       Rule({kAshmemJitZygoteCache}, {}, {}, "HEAP_DALVIK_OTHER", "HEAP_DALVIK_OTHER_ZYGOTE_CODE_CACHE", FALSE),
       Rule({kAshmem}, {}, {}, "HEAP_ASHMEM", "HEAP_UNKNOWN", FALSE),
       Rule({kDev}, {}, {}, "HEAP_UNKNOWN_DEV", "HEAP_UNKNOWN", FALSE),
       Rule({kMemfdJitCache}, {}, {}, "HEAP_DALVIK_OTHER", "HEAP_DALVIK_OTHER_APP_CODE_CACHE", FALSE),
       Rule({kMemfdJitZygoteCache}, {}, {}, "HEAP_DALVIK_OTHER", "HEAP_DALVIK_OTHER_ZYGOTE_CODE_CACHE", FALSE),
       Rule({kLinearAlloc}, {}, {}, "HEAP_DALVIK_OTHER", "HEAP_DALVIK_OTHER_LINEARALLOC", FALSE),
       Rule({kAllocSpace, kMainSpace}, {}, {}, "HEAP_DALVIK", "HEAP_DALVIK_NORMAL", FALSE),
       Rule({kLargeObjectSpace, kFreeListLargeObjectSpace}, {}, {}, "HEAP_DALVIK", "HEAP_DALVIK_LARGE", FALSE),
       Rule({kNonMovingSpace}, {}, {}, "HEAP_DALVIK", "HEAP_DALVIK_NON_MOVING", FALSE),
       Rule({kZygoteSpace}, {}, {}, "HEAP_DALVIK", "HEAP_DALVIK_ZYGOTE", FALSE),
       Rule({kIndirectRef}, {}, {}, "HEAP_DALVIK_OTHER", "HEAP_DALVIK_OTHER_INDIRECT_REFERENCE_TABLE", FALSE),
       Rule({kJitCodeCache, kDataCodeCache}, {}, {}, "HEAP_DALVIK_OTHER", "HEAP_DALVIK_OTHER_APP_CODE_CACHE", FALSE),
       Rule({kCompilerMetadata}, {}, {}, "HEAP_DALVIK_OTHER", "HEAP_DALVIK_OTHER_COMPILER_METADATA", FALSE),
       Rule({kAnonDalvik}, {}, {}, "HEAP_DALVIK_OTHER", "HEAP_DALVIK_OTHER_ACCOUNTING", FALSE),
       Rule({kAnon}, {}, {}, "HEAP_UNKNOWN", "HEAP_UNKNOWN", FALSE),
       Rule({}, {}, {}, "HEAP_UNKNOWN_MAP", "HEAP_UNKNOWN", FALSE) >>

Matches(r, name) ==
    /\ r.pre = {} \/ \E p \in r.pre : StartsWith(name, p)
    /\ r.suf = {} \/ \E p \in r.suf : EndsWith(name, p)
    /\ r.has = {} \/ \E p \in r.has : Contains(name, p)

FirstMatch(name) ==
    LET i == CHOOSE k \in 1..Len(HeapRules) :
                 /\ Matches(HeapRules[k], name)
                 /\ \A j \in 1..(k - 1) : ~Matches(HeapRules[j], name)
    IN  HeapRules[i].heap

InHeapScan == op = "ExtractAndroidHeapStatsFromFile" /\ scanned > 0

RECURSIVE LibraryAt(_, _)
LibraryAt(log, i) ==
    IF log[i].name # EmptyName
    THEN IF EndsWith(StripDeleted(log[i].name), kSo) THEN log[i].name ELSE EmptyName
    ELSE IF i > 1 /\ log[i - 1].end = log[i].start THEN LibraryAt(log, i - 1)
    ELSE EmptyName

ShownLog ==
    [i \in 1..Len(shown) |->
        [name |-> delivered[i], start |-> shown[i].vma.start, end |-> shown[i].vma.end]]

\* the heap classifier's half
BssIsClassifiedSO ==
    InHeapScan =>
        \A i \in 1..Len(scan_log) :
            scan_log[i].name = EmptyName =>
                scan_log[i].which_heap =
                    IF LibraryAt(scan_log, i) # EmptyName THEN "HEAP_SO" ELSE "HEAP_UNKNOWN"

\* showmap's half
BssIsShownUnderLibrary ==
    (op = "showmap" /\ callback = "collect_vma") =>
        \A i \in 1..Len(shown) :
            delivered[i] = EmptyName =>
                IF LibraryAt(ShownLog, i) # EmptyName
                THEN shown[i].is_bss /\ shown[i].vma.name = LibraryAt(ShownLog, i)
                ELSE ~shown[i].is_bss /\ shown[i].vma.name = AnonName

\* C12: a VMA without a name that starts where the VMA before it ends, that
\* one being a shared library or the bss of one, is put in HEAP_SO by the
\* heap classifier and shown by showmap under the library's name with
\* is_bss set; any other VMA without a name is HEAP_UNKNOWN and shown as
\* "[anon]".
C12_BssFollowsItsLibrary ==
    /\ BssIsClassifiedSO
    /\ BssIsShownUnderLibrary

(***************************************************************************)
(* The stats table                                                         *)
(***************************************************************************)
HeapStatsFields == DOMAIN ZeroHeapStats

RECURSIVE SumOfSlots(_, _, _)
SumOfSlots(table, slots, f) ==
    IF slots = {} THEN 0
    ELSE LET s == CHOOSE x \in slots : TRUE
         IN  table[s][f] + SumOfSlots(table, slots \ {s}, f)

AllSubHeaps == UNION {SubHeaps[h] : h \in DOMAIN SubHeaps}

TopIsSumOfSubs ==
    \A top \in DOMAIN SubHeaps : \A f \in HeapStatsFields :
        stats[top][f] = SumOfSlots(stats, SubHeaps[top], f)

\* a VMA of a heap that has no sub-heaps leaves every sub-heap slot as it was
NoStrayIntoSubs ==
    (scanned' = scanned + 1 /\ last_scan'.which_heap \notin DOMAIN SubHeaps) =>
        \A s \in AllSubHeaps : stats'[s] = stats[s]

\* C13: in a table that was all zero when the scan began, each of the slots
\* HEAP_DALVIK, HEAP_DALVIK_OTHER, HEAP_DEX and HEAP_ART is, field by field,
\* the sum of the slots of its sub-heaps, and the VMAs of the other heaps
\* add nothing to a sub-heap slot.
C13_TopSlotIsSumOfItsSubSlots == []TopIsSumOfSubs /\ [][NoStrayIntoSubs]_vars

\* two VMAs of HEAP_DALVIK_OTHER went to two of its sub-heaps
C13_Witness ==
    /\ InHeapScan
    /\ stats["HEAP_DALVIK_OTHER_ACCOUNTING"].rss > 0
    /\ stats["HEAP_DALVIK_OTHER_ZYGOTE_CODE_CACHE"].rss > 0
    /\ stats["HEAP_DALVIK_OTHER"].rss
           = stats["HEAP_DALVIK_OTHER_ACCOUNTING"].rss
             + stats["HEAP_DALVIK_OTHER_ZYGOTE_CODE_CACHE"].rss

\* the swappable pss of the formula, in whole kB: the proportion is the
\* ratio itself, not its integer part
SwappablePssByRatio(usage) ==
    IF usage.shared_clean > 0 \/ usage.shared_dirty > 0
    THEN ((usage.pss - usage.uss) * usage.shared_clean)
             \div (usage.shared_clean + usage.shared_dirty)
         + usage.private_clean
    ELSE usage.private_clean

\* C14: for a VMA of a swappable heap with pss > 0 the swappable pss added
\* to its slots is sharing_proportion * shared_clean + private_clean, where
\* sharing_proportion = (pss - uss) / (shared_clean + shared_dirty), or 0
\* when the VMA has no shared pages; for any other VMA it is 0.
C14_SwappablePssIsProportional ==
    InHeapScan =>
        last_scan.swapable_pss =
            IF last_scan.is_swappable /\ last_scan.usage.pss > 0
            THEN SwappablePssByRatio(last_scan.usage)
            ELSE 0

(***************************************************************************)
(* The readers of smaps_rollup                                             *)
(***************************************************************************)
RECURSIVE SumOfKey(_, _)
SumOfKey(lines, key) ==
    IF lines = << >> THEN 0
    ELSE (IF Head(lines).kind = "stat" /\ Head(lines).key = key THEN Head(lines).val ELSE 0)
         + SumOfKey(Tail(lines), key)

RollupTotals(lines) ==
    [ZeroUsage EXCEPT !.pss = SumOfKey(lines, "Pss:"),
                      !.rss = SumOfKey(lines, "Rss:"),
                      !.private_clean = SumOfKey(lines, "Private_Clean:"),
                      !.private_dirty = SumOfKey(lines, "Private_Dirty:"),
                      !.swap_pss = SumOfKey(lines, "SwapPss:"),
                      !.uss = SumOfKey(lines, "Private_Clean:")
                              + SumOfKey(lines, "Private_Dirty:")]

\* C15: the two functions return false only when the file cannot be
\* opened; whatever the lines of the file, they return true with every total
\* the sum of the numbers written after its key, uss being private_clean +
\* private_dirty, and a line without a number or of another kind adds
\* nothing.
C15_RollupSumsWhatItCanParse ==
    (InRollup /\ pc = "idle") =>
        /\ result = (reason # "open")
        /\ (result /\ op = "SmapsOrRollupFromFile") =>
               rollup_stats = RollupTotals(rollup_lines)
        /\ (result /\ op = "SmapsOrRollupPssFromFile") =>
               rollup_pss = SumOfKey(rollup_lines, "Pss:")

\* a file of two lines, one of them without a number, was summed
C15_Witness ==
    /\ InRollup
    /\ pc = "idle"
    /\ result
    /\ Len(rollup_lines) = 2
    /\ \E i \in 1..2 : rollup_lines[i].kind = "garbled"
    /\ \E i \in 1..2 : rollup_lines[i].kind = "stat" /\ rollup_lines[i].key = "Pss:"

(***************************************************************************)
(* The probe of smaps_rollup                                               *)
(***************************************************************************)
ProbedAtMostOnce == probes <= 1

OneAnswer == Cardinality(answers) <= 1

CacheIsFinal ==
    g_rollup_support # "UNTRIED" => g_rollup_support' = g_rollup_support

\* C16: however the calls of the threads interleave, /proc/self/smaps_rollup
\* is probed at most once, g_rollup_support never changes once it is not
\* UNTRIED, and every call returns the same answer.
C16_ProbedOnceForAll == [](ProbedAtMostOnce /\ OneAnswer) /\ [][CacheIsFinal]_vars

\* what holds of the answers and of the cache
RollupAnswersAgree == []OneAnswer /\ [][CacheIsFinal]_vars

(***************************************************************************)
(* The maps file of an object                                              *)
(***************************************************************************)
\* C17: whatever accessors are called on a ProcMemInfo object, and in
\* whatever order, /proc/<pid>/maps is parsed at most once for it.
C17_MapsFileParsedOnce == maps_reads <= 1


(***************************************************************************)
(* C18: in working-set mode a present page that reaches the test is added  *)
(* to the VMA's usage exactly when it was referenced: with page-idle       *)
(* tracking, when its idle bit is clear; without it, when the referenced   *)
(* bit of its page flags is set.                                           *)
(***************************************************************************)
\* the half without page-idle tracking
CountedIffReferencedFlag ==
    (last_page.tested /\ ~last_page.use_pageidle)
        => (last_page.counted <=> last_page.referenced)

\* the half with page-idle tracking
CountedIffIdleBitClear ==
    (last_page.tested /\ last_page.use_pageidle)
        => (last_page.counted <=> last_page.idle = 0)

\* the half with page-idle tracking, as line 555 has it
CountedIffIdleBitSet ==
    (last_page.tested /\ last_page.use_pageidle)
        => (last_page.counted <=> last_page.idle = 1)

C18_WssCountsReferencedPages ==
    CountedIffReferencedFlag /\ CountedIffIdleBitClear

(***************************************************************************)
(* Claims on MemEventListener                                              *)
(***************************************************************************)
\* the step is a call of the named function with a valid event type
ListenerCalled(name) ==
    /\ ncalls' = ncalls + 1
    /\ op' = name
    /\ isValidEventType(arg_event')

ListenerUnchanged ==
    /\ nopened' = nopened
    /\ UNCHANGED <<mEpfd, mFds, mPendingEvents, open_fds, epoll_set>>

RegisterRepeated ==
    (ListenerCalled("registerEvent") /\ mFds[arg_event'] # -1)
        => (result' = TRUE /\ ListenerUnchanged)

DeregisterUnregistered ==
    (ListenerCalled("deregisterEvent") /\ mFds[arg_event'] = -1)
        => (result' = TRUE /\ ListenerUnchanged)

(***************************************************************************)
(* C19: registerEvent on an event type that is registered returns true,    *)
(* opens no descriptor and leaves the epoll set as it is; deregisterEvent  *)
(* on a valid event type that is not registered returns true and leaves    *)
(* the listener as it is.                                                  *)
(***************************************************************************)
C19_RegistrationIsIdempotent ==
    [][RegisterRepeated /\ DeregisterUnregistered]_vars

\* an event type was registered twice running
C19_Witness ==
    /\ op = "registerEvent" /\ pc = "idle" /\ reason = "registered"
    /\ result = TRUE
    /\ mFds[arg_event] \in epoll_set

\* an event type that was registered and deregistered is deregistered again
DeregisteredTwice ==
    /\ op = "deregisterEvent" /\ pc = "idle" /\ reason = "unregistered"
    /\ nopened >= 2

NothingRegistered == \A e \in MemEvents : mFds[e] = -1

\* no event is registered and no descriptor of the listener is open
AllClosed == NothingRegistered /\ mEpfd = -1 /\ open_fds = {}

AfterDeregisterAll ==
    (ncalls' = ncalls + 1 /\ op' = "deregisterAllEvents") => AllClosed'

AfterLastDeregister ==
    (/\ ListenerCalled("deregisterEvent")
     /\ mFds[arg_event'] # -1
     /\ result' = TRUE
     /\ NothingRegistered')
        => AllClosed'

ListenReturnsError ==
    (ncalls' = ncalls + 1 /\ op' = "listen" /\ NothingRegistered)
        => (pc' = "idle" /\ ret_event' = ERROR)

\* the same, for a listener whose epoll descriptor is closed
ListenReturnsErrorWithoutEpfd ==
    (ncalls' = ncalls + 1 /\ op' = "listen" /\ mEpfd < 0)
        => (pc' = "idle" /\ ret_event' = ERROR)

\* the descriptors are closed by a deregisterAllEvents() that finds an event
\* registered and whose epoll_ctl calls succeed
AfterDeregisterAllOfSome ==
    (/\ ncalls' = ncalls + 1 /\ op' = "deregisterAllEvents"
     /\ ~NothingRegistered /\ NothingRegistered')
        => AllClosed'

ListenerClosesWhatItCan ==
    [][/\ AfterLastDeregister
       /\ AfterDeregisterAllOfSome
       /\ ListenReturnsErrorWithoutEpfd]_vars

(***************************************************************************)
(* C20: after deregisterAllEvents(), or after deregisterEvent() of the     *)
(* last registered event, every event descriptor and the epoll descriptor  *)
(* are closed; a listen() made while no event is registered returns ERROR  *)
(* at once, without waiting.                                               *)
(***************************************************************************)
C20_NothingRegisteredMeansClosed ==
    [][AfterDeregisterAll /\ AfterLastDeregister /\ ListenReturnsError]_vars

(***************************************************************************)
(* C27: the epoll descriptor is open exactly when some event type is       *)
(* registered, also after a registerEvent that created the epoll instance  *)
(* and then failed; so listen() never waits on an epoll set without a      *)
(* registered event.                                                       *)
(***************************************************************************)
EpfdOpenIffRegistered == (mEpfd >= 0) <=> ~NothingRegistered

ListenWaitsOnRegisteredEvent ==
    (op = "listen" /\ pc = "epoll_wait") => Watched(Listener) # {}

\* the half that the code keeps: an event is registered only with mEpfd open
RegisteredOnlyWithEpfd == ~NothingRegistered => mEpfd >= 0

C27_EpfdOpenIffEventRegistered ==
    EpfdOpenIffRegistered /\ ListenWaitsOnRegisteredEvent

(***************************************************************************)
(* C28: listen() takes the front of mPendingEvents only when the queue is  *)
(* not empty, also after a wake-up of epoll_wait that carries no EPOLLPRI  *)
(* event; queued events are returned one per call, in the order queued.    *)
(***************************************************************************)
\* no listen() has returned through front() and pop_front() of an empty deque
FrontOnlyOfNonEmptyQueue == ~(op = "listen" /\ pc = "idle" /\ reason = "undefined")

\* a listen() that finds events queued returns the first and keeps the rest
QueuedEventsInOrder ==
    (ncalls' = ncalls + 1 /\ op' = "listen" /\ mEpfd >= 0 /\ mPendingEvents # << >>)
        => /\ ret_event' = Head(mPendingEvents)
           /\ mPendingEvents' = Tail(mPendingEvents)

\* a wake-up with an EPOLLPRI event returns it
WakeUpReturnsQueuedEvent ==
    (pc = "epoll_wait" /\ pc' = "idle" /\ reason' = "event")
        => (ret_event' \in Watched(Listener) /\ mPendingEvents' = << >>)

ListenReturnsWhatIsQueued ==
    [][QueuedEventsInOrder /\ WakeUpReturnsQueuedEvent]_vars

C28_FrontOnlyWhenQueueNonEmpty ==
    []FrontOnlyOfNonEmptyQueue /\ [][QueuedEventsInOrder]_vars

(***************************************************************************)
(* Claims on the batches of the page walk                                  *)
(***************************************************************************)
\* FillInVmaStats on an object without working-set mode and without a page
\* filter (neither changes what is read), the walk always being carried on
InitBatch == InitFill /\ ~get_wss_ /\ pgflags_mask_ = {}

SpecFillFair == InitBatch /\ [][NextFill]_vars /\ WF_vars(WalkPage)

\* ceil(n / kMaxPages)
NumBatches(n) == (n + kMaxPages - 1) \div kMaxPages

\* batch k (k = 0, 1, ...) of a VMA of n pages that begins at page first
BatchRead(first, n, k) ==
    [offset |-> (first + kMaxPages * k) * 8,
     bytes |-> 8 * (IF n - kMaxPages * k > kMaxPages THEN kMaxPages
                    ELSE n - kMaxPages * k)]

BatchReads(first, n) ==
    [j \in 1..NumBatches(n) |-> BatchRead(first, n, j - 1)]

\* the page indexes that a sequence of reads covers, in the order read
RECURSIVE PagesOf(_)
PagesOf(reads) ==
    IF reads = << >> THEN << >>
    ELSE [i \in 1..(Head(reads).bytes \div 8) |-> Head(reads).offset \div 8 + i - 1]
         \o PagesOf(Tail(reads))

InFill == op = "FillInVmaStats" /\ walked # << >>

\* while the walk runs and after it failed, the reads made are the first
\* batches; after it succeeded, they are all the batches, and every page of
\* the VMA was read once, in ascending order
ReadsAreTheBatches ==
    InFill =>
        /\ IsPrefix(pagemap_reads, BatchReads(wp.first_page, wp.num_pages))
        /\ \A j \in 1..Len(pagemap_reads) : pagemap_reads[j].bytes <= 8 * kMaxPages
        /\ (pc = "idle" /\ result = TRUE) =>
              /\ Len(pagemap_reads) = NumBatches(wp.num_pages)
              /\ PagesOf(pagemap_reads) =
                    [i \in 1..wp.num_pages |-> wp.first_page + i - 1]
              /\ wp.num_pages = 0 => pagemap_reads = << >>

(***************************************************************************)
(* C24: a VMA of N pages is read from the pagemap in batches of at most    *)
(* kMaxPages entries, batch k by one read at byte offset                   *)
(* (first_page + kMaxPages * k) * 8; every page is read once, in ascending *)
(* order, with ceil(N / kMaxPages) reads; no read is made for N = 0; the   *)
(* loop ends.                                                              *)
(***************************************************************************)
C24_PagemapReadInBatches ==
    []ReadsAreTheBatches /\ ((pc = "walk") ~> (pc = "idle"))

\* a walk of more pages than a batch holds has succeeded
C24_Witness ==
    /\ InFill /\ pc = "idle" /\ result = TRUE
    /\ wp.num_pages > kMaxPages
    /\ Len(pagemap_reads) = 2

(***************************************************************************)
(* Claims on one page of the walk                                          *)
(***************************************************************************)
PageDone == op = "ReadVmaStats"

\* the entry read is of a present page, the walk collects memory usage and
\* did not fail at this page
PresentPage ==
    /\ PageDone
    /\ pg_in.o.read_ok /\ pg_in.o.present /\ ~pg_in.o.swapped
    /\ pg_in.p.update_mem_usage
    /\ pg_out.st # "fail"

PageMatchesFilter ==
    (pg_in.o.flags \cap pg_in.p.pgflags_mask) = pg_in.p.pgflags

\* what the page added to a field
Added(f) == pg_out.usage[f] - pg_in.c.usage[f]

\* the page was added to the resident counters
PageCounted ==
    /\ Added("rss") = pagesz_kb
    /\ Added("private_dirty") + Added("private_clean")
         + Added("shared_dirty") + Added("shared_clean") = pagesz_kb

\* the page left the resident counters alone
PageNotCounted ==
    \A f \in {"rss", "uss", "pss", "private_dirty", "private_clean",
              "shared_dirty", "shared_clean"} : Added(f) = 0

\* the working-set test of lines 553-562, for a page that comes to it
PassesWssTest ==
    pg_in.p.get_wss =>
        IF pg_in.p.use_pageidle THEN pg_in.o.idle = 1
        ELSE "REFERENCED" \in pg_in.o.flags

CountedIffFilterAndMapped ==
    PresentPage =>
        /\ PageCounted <=> (PageMatchesFilter /\ pg_in.o.count # 0)
        /\ PageCounted \/ PageNotCounted

ThpWhateverTheFilter ==
    (PresentPage \/ (PageDone /\ pg_out.err = "PageMapCount"))
        => Added("thp") = (IF "THP" \in pg_in.o.flags THEN pagesz_kb ELSE 0)

UnmappedPageSkipped ==
    (/\ PageDone
     /\ pg_in.o.read_ok /\ pg_in.o.present /\ ~pg_in.o.swapped
     /\ pg_in.p.update_mem_usage /\ pg_in.o.pf_ok /\ PageMatchesFilter
     /\ pg_in.o.pmc_ok /\ pg_in.o.count = 0)
        => (pg_out.st # "fail" /\ PageNotCounted /\ pg_out.swaps = pg_in.c.swaps)

(***************************************************************************)
(* C22 as stated: a present page adds to rss, uss, pss and the clean/dirty *)
(* counters exactly when its flags match the filter and its map count is   *)
(* not zero; a THP page adds to thp whatever the filter; a present page    *)
(* with map count zero is skipped and the walk goes on.                    *)
(***************************************************************************)
C22_CountedIffFilterAndMapCount ==
    CountedIffFilterAndMapped /\ ThpWhateverTheFilter /\ UnmappedPageSkipped

\* what the code does in either mode
CountedIffFilterMapCountAndWss ==
    PresentPage =>
        (PageCounted <=> (PageMatchesFilter /\ pg_in.o.count # 0 /\ PassesWssTest))

(***************************************************************************)
(* C22 amended: outside working-set mode a present page is counted exactly *)
(* when its flags match the filter and its map count is not zero; in       *)
(* working-set mode it is counted only when they do, and not always then.  *)
(* The statements on thp and on the map count zero are as in C22.          *)
(***************************************************************************)
C22_CountedIffFilterAndMapCountOutsideWss ==
    /\ PresentPage =>
          /\ PageCounted => (PageMatchesFilter /\ pg_in.o.count # 0)
          /\ ~pg_in.p.get_wss =>
                ((PageMatchesFilter /\ pg_in.o.count # 0) => PageCounted)
          /\ PageCounted \/ PageNotCounted
    /\ ThpWhateverTheFilter
    /\ UnmappedPageSkipped

\* a THP page that fails the filter was walked: thp grew, nothing else
C22_Witness ==
    /\ PresentPage
    /\ "THP" \in pg_in.o.flags
    /\ ~PageMatchesFilter
    /\ Added("thp") = pagesz_kb
    /\ PageNotCounted

\* a page with map count zero was walked
UnmappedPageWalked ==
    PresentPage /\ PageMatchesFilter /\ pg_in.o.pmc_ok /\ pg_in.o.count = 0

\* a page that matches and is mapped was left out by the working-set test
WssPageLeftOut ==
    /\ PresentPage /\ PageMatchesFilter /\ pg_in.o.count # 0
    /\ ~PassesWssTest /\ PageNotCounted

(***************************************************************************)
(* C23: a counted page adds the page size in KB to rss, the truncated      *)
(* quotient of the page size in KB by the map count to pss, the page size  *)
(* in KB to exactly one of private_dirty, private_clean, shared_dirty and  *)
(* shared_clean, chosen by (map count = 1) and the dirty flag, and to uss  *)
(* exactly when the map count is 1.                                        *)
(***************************************************************************)
\* every test before lines 566-575 lets the page through
ComesToBeCounted ==
    /\ PresentPage
    /\ pg_in.o.pf_ok /\ PageMatchesFilter
    /\ pg_in.o.pmc_ok /\ pg_in.o.count # 0
    /\ PassesWssTest

\* the clean/dirty counter chosen by the map count and the dirty flag
CounterOf(count, flags) ==
    IF count = 1
    THEN (IF "DIRTY" \in flags THEN "private_dirty" ELSE "private_clean")
    ELSE (IF "DIRTY" \in flags THEN "shared_dirty" ELSE "shared_clean")

C23_CountedPageAddsItsShare ==
    ComesToBeCounted =>
        /\ Added("rss") = pagesz_kb
        /\ Added("pss") = pagesz_kb \div pg_in.o.count
        /\ Added("uss") = (IF pg_in.o.count = 1 THEN pagesz_kb ELSE 0)
        /\ \A f \in {"private_dirty", "private_clean", "shared_dirty", "shared_clean"} :
              Added(f) = (IF f = CounterOf(pg_in.o.count, pg_in.o.flags)
                          THEN pagesz_kb ELSE 0)

\* a dirty page mapped three times was counted: pss grew by 4 \div 3
C23_Witness ==
    /\ ComesToBeCounted
    /\ pg_in.o.count = 3
    /\ "DIRTY" \in pg_in.o.flags
    /\ Added("shared_dirty") = pagesz_kb
    /\ Added("pss") = 1

(***************************************************************************)
(* Claims on the swapped pages                                             *)
(***************************************************************************)
\* one iteration taken alone: a swapped page adds to swap when asked to,
\* records its offset, and adds to nothing else (vss is added per VMA)
SwappedPageOnlySwap ==
    (PageDone /\ pg_in.o.read_ok /\ ~pg_in.o.present /\ pg_in.o.swapped)
        => /\ pg_out.st # "fail"
           /\ Added("swap") = (IF pg_in.p.update_swap_usage THEN pagesz_kb ELSE 0)
           /\ pg_out.swaps = Append(pg_in.c.swaps, pg_in.o.swap_off)
           /\ \A f \in MemUsageFields \ {"swap", "vss"} : Added(f) = 0

\* GetUsageStats: the iteration that comes to a swapped page
SwappedStep ==
    (op # "FillInVmaStats" /\ nswapped' = nswapped + 1)
        => /\ Len(maps_') = Len(maps_)
           /\ Len(swap_offsets_') = Len(swap_offsets_) + 1
           /\ SubSeq(swap_offsets_', 1, Len(swap_offsets_)) = swap_offsets_
           /\ maps_'[widx].usage.swap = maps_[widx].usage.swap + pagesz_kb
           /\ \A f \in MemUsageFields \ {"swap", "vss"} :
                 maps_'[widx].usage[f] = maps_[widx].usage[f]

\* Usage() was the first call on an object without working-set mode, and
\* it succeeded
FreshUsageDone ==
    /\ op = "Usage" /\ pc = "idle" /\ ncalls = 1
    /\ ~get_wss_
    /\ result = TRUE

SwapTotals ==
    FreshUsageDone =>
        /\ Len(swap_offsets_) = nswapped
        /\ usage_.swap = pagesz_kb * nswapped

(***************************************************************************)
(* C25: a swapped page adds the page size in KB to the swap of its VMA,    *)
(* records one swap offset and adds to no other counter; after a           *)
(* successful Usage() on a new object without working-set mode there are   *)
(* as many swap offsets as swapped pages, and the swap total is the page   *)
(* size in KB times that number.                                           *)
(***************************************************************************)
C25_SwapCountsSwappedPages == []SwapTotals /\ [][SwappedStep]_vars

\* the walks of a first Usage() came to two swapped pages
C25_Witness ==
    /\ FreshUsageDone
    /\ nswapped = 2
    /\ Len(swap_offsets_) = 2
    /\ usage_.swap = 2 * pagesz_kb

(***************************************************************************)
(* Claims on the order of the accessor calls                               *)
(***************************************************************************)
\* the vss that the walks of a first Usage() add up: the pages of the VMAs
RECURSIVE VssOf(_)
VssOf(vmas) ==
    IF vmas = << >> THEN 0
    ELSE pagesz_kb * NumPages(Head(vmas)) + VssOf(Tail(vmas))

\* Usage() has returned the totals of an object without working-set mode
\* whose VMAs were read by the call made before it
UsageAfterAnotherCall ==
    /\ op = "Usage" /\ pc = "idle" /\ result = TRUE
    /\ ~get_wss_
    /\ ncalls = 2 /\ maps_reads = 1
    /\ maps_ # << >>

\* the totals are those of a pass that walked every VMA and collected the
\* memory usage, as the pass of a first Usage() does
TotalsOfAFullPass ==
    /\ usage_.vss = VssOf(maps_)
    /\ rm.update_mem_usage

(***************************************************************************)
(* C29: on an object without working-set mode Usage() returns the same     *)
(* totals whether it is the first call or follows SwapOffsets(),           *)
(* MapsWithoutUsageStats() or Smaps().                                     *)
(***************************************************************************)
C29_UsageSameAfterOtherAccessors ==
    UsageAfterAnotherCall => TotalsOfAFullPass

\* a first Usage() returns the totals of a full pass
FirstUsageIsAFullPass ==
    (FreshUsageDone /\ maps_ # << >>) => TotalsOfAFullPass

(***************************************************************************)
(* Claims on the counts of showmap                                         *)
(***************************************************************************)
\* lines 389-401: g_total.count after the loop over g_vmas, which holds the
\* entries of g_vmas_name_map; g_total is a static object, its count begins
\* at zero
RECURSIVE SumOfCounts(_, _)
SumOfCounts(map, names) ==
    IF names = {} THEN 0
    ELSE LET n == CHOOSE x \in names : TRUE
         IN  map[n].count + SumOfCounts(map, names \ {n})

g_total_count == SumOfCounts(g_vmas_name_map, DOMAIN g_vmas_name_map)

\* the VMAs collected under a name
CollectedUnder(name) == {i \in 1..Len(merged) : merged[i].name = name}

EntryCountsItsVmas ==
    \A name \in DOMAIN g_vmas_name_map :
        g_vmas_name_map[name].count = Cardinality(CollectedUnder(name))

TotalCountsEveryVma ==
    (op = "showmap" /\ pc = "idle" /\ result = TRUE)
        => g_total_count = Len(merged)

\* what the code keeps: one per entry
EntryCountIsOne ==
    /\ \A name \in DOMAIN g_vmas_name_map : g_vmas_name_map[name].count = 1
    /\ g_total_count = Cardinality(DOMAIN g_vmas_name_map)

(***************************************************************************)
(* C30: with VMAs merged by name, the count of each entry is the number of *)
(* VMAs collected into it, and the count of the TOTAL row is the number of *)
(* VMAs parsed.                                                            *)
(***************************************************************************)
C30_CountIsNumberOfMergedVmas ==
    (op = "showmap" /\ callback = "collect_vma_merge_by_names")
        => (EntryCountsItsVmas /\ TotalCountsEveryVma)

(***************************************************************************)
(* Claims on procrank                                                      *)
(***************************************************************************)
\* the records of procs that have the slot off among their swap offsets
ProcsReferencing(off) ==
    {j \in 1..Len(procs) :
        \E m \in 1..Len(procs[j].swap_offsets_) : procs[j].swap_offsets_[m] = off}

\* the entries of the swap offsets of the records of procs that are off
ReferencesTo(off) ==
    {jm \in (1..Len(procs)) \X (1..MaxOffsets) :
        /\ jm[2] <= Len(procs[jm[1]].swap_offsets_)
        /\ procs[jm[1]].swap_offsets_[jm[2]] = off}

Calculated(i) == i \in 1..Len(procs) /\ procs[i].calculated

\* a step in which CalculateSwap is called
CalculateSwapStep == \E i \in 1..Len(procs) : ~procs[i].calculated /\ Calculated(i)'

\* the first pass is over: every pid has been visited, every record kept
\* has been counted, and neither procs nor the table change any more
CalculateAfterAllCounted ==
    CalculateSwapStep =>
        /\ pc = "print"
        /\ Len(procs) = Len(procs')
        /\ \A j \in 1..Len(procs) : procs[j].counted
        /\ swap_offset_array' = swap_offset_array

DivisorsWithinTable ==
    \A i \in 1..Len(procs) : Calculated(i) =>
        \A k \in 1..Len(procs[i].swap_offsets_) :
            /\ procs[i].swap_offsets_[k] < Len(swap_offset_array)
            /\ procs[i].divisors[k] >= 1

DivisorsAreProcessCounts ==
    \A i \in 1..Len(procs) : Calculated(i) =>
        \A k \in 1..Len(procs[i].swap_offsets_) :
            procs[i].divisors[k] = Cardinality(ProcsReferencing(procs[i].swap_offsets_[k]))

DivisorsAreReferenceCounts ==
    \A i \in 1..Len(procs) : Calculated(i) =>
        \A k \in 1..Len(procs[i].swap_offsets_) :
            procs[i].divisors[k] = Cardinality(ReferencesTo(procs[i].swap_offsets_[k]))

\* what holds of procrank: two passes, divisors within the table and not
\* zero, each the number of entries of the ranked processes for the slot
ProcrankTwoPasses ==
    /\ [](DivisorsWithinTable /\ DivisorsAreReferenceCounts)
    /\ [][CalculateAfterAllCounted]_vars

(***************************************************************************)
(* C26: procrank computes the swap shares in two phases: every             *)
(* CalculateSwap comes after count_swap_offsets has been done for all the  *)
(* processes kept in the ranking, so each divisor swap_offset_array[off]   *)
(* is within the table, is at least 1, and is the number of ranked         *)
(* processes that reference the slot.                                      *)
(***************************************************************************)
C26_SharesAfterAllCounted ==
    /\ [](DivisorsWithinTable /\ DivisorsAreProcessCounts)
    /\ [][CalculateAfterAllCounted]_vars

(***************************************************************************)
(* Claims on a listen() under way while another thread deregisters         *)
(***************************************************************************)
\* listen() is in epoll_wait and the latest call of the other thread took
\* the last registered event away
LastEventDeregisteredWhileListening ==
    /\ pc = "epoll_wait"
    /\ op2.last
    /\ NothingRegistered

\* then mEpfd is closed and no descriptor is left that could wake the wait
NothingLeftToWakeListen ==
    LastEventDeregisteredWhileListening
        => (mEpfd = -1 /\ open_fds = {} /\ Watched(Listener) = {})

\* and the wait ends with an error of epoll_wait only
OnlyAnErrorEndsTheWait ==
    (LastEventDeregisteredWhileListening /\ pc' = "idle")
        => (reason' = "epoll_wait" /\ ret_event' = ERROR)

ListenLeftWaiting ==
    /\ []NothingLeftToWakeListen
    /\ [][OnlyAnErrorEndsTheWait]_vars

(***************************************************************************)
(* C21: when a thread is blocked in listen() and another thread            *)
(* deregisters the last registered event, with deregisterEvent or with     *)
(* deregisterAllEvents, the listen() under way is terminated: it returns   *)
(* in the end.                                                             *)
(***************************************************************************)
C21_DeregisterTerminatesListen ==
    LastEventDeregisteredWhileListening ~> (pc = "idle")

====
